---- MODULE Spec2Model ----
(***************************************************************************)
(* A model of coq-of-ts: the diagnostics sink (error.ts), the type-checker *)
(* holder (global.ts), the type compiler (typ.ts), the type-definition     *)
(* classifier (typ-definition.ts) and the statement compiler               *)
(* (expression.ts).                                                        *)
(*                                                                         *)
(* Syntax-tree nodes of the TypeScript parser are records with a 'kind'    *)
(* field.  A compile function of the source returns a value and may push   *)
(* diagnostics on the sink or throw; it is modelled as an operator giving  *)
(* [val, errs, thrown]: the value returned, the diagnostics pushed (in the *)
(* order of the pushes) and whether a JavaScript exception escaped.        *)
(***************************************************************************)
EXTENDS Integers, Sequences, FiniteSets, TLC

VARIABLES
  errors,       \* error.ts: the process-wide diagnostics sink
  typeChecker,  \* global.ts: state.typeChecker ("null" when not installed)
  last          \* the last operation: its name, argument, result, and the sink before it

vars == <<errors, typeChecker, last>>

----------------------------------------------------------------------------
(* Bounds of the model. *)

MaxMembers == 2     \* members of an object-literal type
MaxUnion == 3       \* members of a union type
MaxTuple == 2       \* elements of a tuple type
MaxClauses == 3     \* clauses of a switch statement
MaxStatements == 2  \* statements of a list without switch statement
MaxProperties == 3  \* properties of an object literal
MaxNesting == 2     \* nesting of the target expressions that are printed
MaxSinkBefore == 1  \* Spec: an operation starts on a sink of at most this length

----------------------------------------------------------------------------
(* Generic helpers. *)

Undefined == [kind |-> "undefined"]

SeqsUpTo(S, n) == UNION {[1..k -> S] : k \in 0..n}

NonEmptySeqsUpTo(S, n) == UNION {[1..k -> S] : k \in 1..n}

RECURSIVE Flatten(_)
Flatten(ss) == IF ss = <<>> THEN <<>> ELSE Head(ss) \o Flatten(Tail(ss))

MinOf(S) == CHOOSE i \in S : \A j \in S : i <= j

(* A normal return without diagnostics. *)
Ret(v) == [val |-> v, errs |-> <<>>, thrown |-> FALSE]

(* An exception escaping after the diagnostics es were pushed. *)
Throw(es) == [val |-> Undefined, errs |-> es, thrown |-> TRUE]

(* Evaluation of the results rs one after the other, as Array.map or the   *)
(* fields of an object literal are evaluated: the first exception stops    *)
(* the evaluation and keeps the diagnostics pushed so far.                 *)
SeqM(rs) ==
  LET bad == {i \in 1..Len(rs) : rs[i].thrown}
      k == IF bad = {} THEN Len(rs) ELSE MinOf(bad)
      es == Flatten([i \in 1..k |-> rs[i].errs])
  IN  IF bad = {}
        THEN [val |-> [i \in 1..Len(rs) |-> rs[i].val], errs |-> es, thrown |-> FALSE]
        ELSE Throw(es)

(* The result r with its value replaced by F(value), unless r threw. *)
Fmap(F(_), r) ==
  IF r.thrown THEN r ELSE [val |-> F(r.val), errs |-> r.errs, thrown |-> FALSE]

(* The diagnostics es, followed by the outcome s. *)
Join(es, s) == [val |-> s.val, errs |-> es \o s.errs, thrown |-> s.thrown]

(* r, then K(value of r): the diagnostics of the second follow those of    *)
(* the first, and an exception in r skips K.                               *)
Bind(r, K(_)) == IF r.thrown THEN r ELSE Join(r.errs, K(r.val))

(* The elements of s at the positions where keep is TRUE. *)
RECURSIVE SelectAt(_, _)
SelectAt(s, keep) ==
  IF s = <<>> THEN <<>>
  ELSE (IF Head(keep) THEN <<Head(s)>> ELSE <<>>) \o SelectAt(Tail(s), Tail(keep))

----------------------------------------------------------------------------
(* error.ts *)

raiseDropsEntry(defaultValue, node, message) ==
  [val |-> defaultValue, errs |-> <<>>, thrown |-> FALSE]

raise(defaultValue, node, message) ==
  [val |-> defaultValue,
   errs |-> <<[message |-> message, node |-> node]>>,
   thrown |-> FALSE]

----------------------------------------------------------------------------
(* identifier.ts.  (In the messages of this model a quote stands for the     *)
(* back quote of the source.)                                               *)

IdentifierCompile(node) ==
  IF node.kind = "Identifier" THEN Ret(node.text)
  ELSE raise("unknown", node, "Expected an identifier")

----------------------------------------------------------------------------
(* typ.ts: the target types and the type compiler. *)

Implicit == [type |-> "Implicit"]

TypVariable(name, params) == [type |-> "Variable", name |-> name, params |-> params]

unit == TypVariable("unit", <<>>)

PlainTyp(t) == [type |-> "PlainTyp", typ |-> t]

Rest(node) == [type |-> "Rest", typ |-> node]

(* ts.isStringLiteral: the node is a string-literal token.  The parser     *)
(* gives a string-literal type the kind LiteralType, with the token as its *)
(* 'literal' child.                                                        *)
isStringLiteral(node) == node.kind = "StringLiteral"

isLiteralTypeNode(node) == node.kind = "LiteralType"

isTypeLiteralNode(node) == node.kind = "TypeLiteral"

isUnionTypeNode(node) == node.kind = "UnionType"

isPropertySignature(node) == node.kind = "PropertySignature"

Tuple(params) == [type |-> "Tuple", params |-> params]

Function(params, returnTyp, typParams) ==
  [type |-> "Function", params |-> params, returnTyp |-> returnTyp, typParams |-> typParams]

RECURSIVE compileIfPlainTyp(_), TypCompile(_)

(* compileTuple without the case of one element. *)
compileTupleOfAnyLength(typ) ==
  Fmap(LAMBDA params : PlainTyp(Tuple(params)),
       SeqM([i \in 1..Len(typ.elements) |-> TypCompile(typ.elements[i])]))

(* The tuple-type case of compileIfPlainTyp. *)
compileTuple(typ) ==
  IF Len(typ.elements) = 1
    THEN Bind(TypCompile(typ.elements[1]),
              LAMBDA element : raise(PlainTyp(element), typ,
                                     "Tuple types with exactly one element are not handled"))
    ELSE Fmap(LAMBDA params : PlainTyp(Tuple(params)),
              SeqM([i \in 1..Len(typ.elements) |-> TypCompile(typ.elements[i])]))

(* The function-type case of compileIfPlainTyp: params, returnTyp and      *)
(* typParams are evaluated in this order.                                  *)
compileFunctionType(typ) ==
  Fmap(LAMBDA a : PlainTyp(Function(a[1], a[2], a[3])),
       SeqM(<<SeqM([i \in 1..Len(typ.parameters) |->
                      IF typ.parameters[i].type.kind # "undefined"
                        THEN TypCompile(typ.parameters[i].type)
                        ELSE Ret(Implicit)]),
              TypCompile(typ.type),
              SeqM([i \in 1..Len(typ.typeParameters) |->
                      IdentifierCompile(typ.typeParameters[i].name)])>>))

compileIfPlainTyp(typ) ==
  IF typ.kind = "undefined" THEN Throw(<<>>)  \* typ.kind of undefined: a TypeError
  ELSE IF typ.kind = "AnyKeyword"
    THEN raise(PlainTyp(Implicit), typ, "The type 'any' is not handled")
  ELSE IF typ.kind = "ArrayType"
    THEN Fmap(LAMBDA element : PlainTyp(TypVariable("list", <<element>>)),
              TypCompile(typ.elementType))
  ELSE IF typ.kind = "BooleanKeyword" THEN Ret(PlainTyp(TypVariable("bool", <<>>)))
  ELSE IF typ.kind = "NeverKeyword" THEN Ret(PlainTyp(TypVariable("Empty_set", <<>>)))
  ELSE IF typ.kind = "FunctionType" THEN compileFunctionType(typ)
  ELSE IF typ.kind = "TypeReference"
    THEN Fmap(LAMBDA name : PlainTyp(TypVariable(name, <<>>)),
              IdentifierCompile(typ.typeName))
  ELSE IF typ.kind = "NullKeyword" THEN Ret(PlainTyp(unit))
  ELSE IF typ.kind = "NumberKeyword" THEN Ret(PlainTyp(TypVariable("Z", <<>>)))
  ELSE IF isTypeLiteralNode(typ)
    THEN IF Len(typ.members) = 0 THEN Ret(PlainTyp(unit)) ELSE Ret(Rest(typ))
  ELSE IF isStringLiteral(typ) THEN Ret(Rest(typ))
  ELSE IF typ.kind = "StringKeyword" THEN Ret(PlainTyp(TypVariable("string", <<>>)))
  ELSE IF typ.kind = "ThisType"
    THEN raise(PlainTyp(unit), typ, "The type 'this' is not handled")
  ELSE IF typ.kind = "TupleType" THEN compileTuple(typ)
  ELSE IF typ.kind = "TypeQuery"
    THEN raise(PlainTyp(Implicit), typ,
               "Extracting the type of values with 'typeof' is not handled")
  ELSE IF isUnionTypeNode(typ) THEN Ret(Rest(typ))
  ELSE IF typ.kind = "VoidKeyword" THEN Ret(PlainTyp(unit))
  ELSE raise(PlainTyp(Implicit), typ, "Unhandled kind of type")

(* The switch of Typ.compile on the result of compileIfPlainTyp. *)
plainTypOrRaise(compiledTyp) ==
  IF compiledTyp.type = "PlainTyp" THEN Ret(compiledTyp.typ)
  ELSE IF isTypeLiteralNode(compiledTyp.typ)
    THEN raise(unit, compiledTyp.typ,
               "This kind of object type is not handled outside of type definitions")
  ELSE IF isStringLiteral(compiledTyp.typ)
    THEN raise(unit, compiledTyp.typ,
               "String literal types are not handled outside of type definitions")
  ELSE IF isUnionTypeNode(compiledTyp.typ)
    THEN raise(unit, compiledTyp.typ,
               "Union types are not handled outside of type definitions")
  ELSE Ret(compiledTyp.typ)

TypCompile(typ) == Bind(compileIfPlainTyp(typ), plainTypOrRaise)

----------------------------------------------------------------------------
(* typ-definition.ts: the type-definition classifier. *)

Enum(names) == [type |-> "Enum", names |-> names]

Record(fields) == [type |-> "Record", fields |-> fields]

Sum(constructors) == [type |-> "Sum", constructors |-> constructors]

Synonym(typ) == [type |-> "Synonym", typ |-> typ]

Constructor(name, fields) == [name |-> name, fields |-> fields]

Field(name, typ) == [name |-> name, typ |-> typ]

getStringOfLiteralType(typ) ==
  IF isLiteralTypeNode(typ) /\ isStringLiteral(typ.literal)
    THEN Ret(typ.literal.text)
    ELSE raise("Unknown", typ, "Expected a string literal type")

compileStringEnum(typs) ==
  Fmap(Enum, SeqM([i \in 1..Len(typs) |-> getStringOfLiteralType(typs[i])]))

(* One field of a constructor: {name: Identifier.compile(property.name),   *)
(* typ: property.type ? Typ.compile(property.type) : raise(unit, ...)}.    *)
compileConstructorField(property) ==
  Fmap(LAMBDA a : Field(a[1], a[2]),
       SeqM(<<IdentifierCompile(property.name),
              IF property.type.kind # "undefined"
                THEN TypCompile(property.type)
                ELSE raise(unit, property, "Missing type")>>))

(* The end of the callback of typs.map in compileSumType, after the reduce *)
(* has split the property signatures by their compiled names.              *)
constructorOfProperties(typ, nameProperties, fieldProperties) ==
  IF nameProperties = <<>>
    THEN raise(Constructor("UnkownConstructor", <<>>), typ,
               "Expected at least one field with the name 'type'")
    ELSE Fmap(LAMBDA a : Constructor(a[1], a[2]),
              SeqM(<<IF nameProperties[1].type.kind # "undefined"
                       THEN getStringOfLiteralType(nameProperties[1].type)
                       ELSE raise("UnkownConstructor", nameProperties[1],
                                  "Missing constructor name"),
                     SeqM([i \in 1..Len(fieldProperties) |->
                             compileConstructorField(fieldProperties[i])])>>))

(* constructorOfSignatures with every property signature among the fields. *)
constructorOfSignaturesKeepingType(typ, signatures) ==
  Bind(SeqM([i \in 1..Len(signatures) |-> IdentifierCompile(signatures[i].name)]),
       LAMBDA names :
         constructorOfProperties(
           typ,
           SelectAt(signatures, [i \in 1..Len(signatures) |-> names[i] = "type"]),
           signatures))

(* The reduce over typ.members: Identifier.compile(property.name) of every *)
(* property signature; the other members are skipped.                      *)
constructorOfSignatures(typ, signatures) ==
  Bind(SeqM([i \in 1..Len(signatures) |-> IdentifierCompile(signatures[i].name)]),
       LAMBDA names :
         constructorOfProperties(
           typ,
           SelectAt(signatures, [i \in 1..Len(signatures) |-> names[i] = "type"]),
           SelectAt(signatures, [i \in 1..Len(signatures) |-> names[i] # "type"])))

(* The callback of typs.map in compileSumType: one constructor. *)
compileConstructor(typ) ==
  IF ~isTypeLiteralNode(typ)
    THEN raise(Constructor("NonObject", <<>>), typ, "Expected an Object type")
    ELSE constructorOfSignatures(typ, SelectSeq(typ.members, isPropertySignature))

compileSumType(typs) ==
  Fmap(Sum, SeqM([i \in 1..Len(typs) |-> compileConstructor(typs[i])]))

(* Array.some over the outcomes tests of the callback: it stops at the     *)
(* first TRUE.                                                             *)
some(tests) ==
  LET hits == {i \in 1..Len(tests) : tests[i].val}
      k == IF hits = {} THEN Len(tests) ELSE MinOf(hits)
  IN  [val |-> hits # {}, errs |-> Flatten([i \in 1..k |-> tests[i].errs]),
       thrown |-> FALSE]

(* members.some((property) => ts.isPropertySignature(property) &&          *)
(*                            Identifier.compile(property) === 'type'):    *)
(* Identifier.compile is applied to the member itself.                     *)
withATypeField(members) ==
  some([i \in 1..Len(members) |->
          IF isPropertySignature(members[i])
            THEN Fmap(LAMBDA name : name = "type", IdentifierCompile(members[i]))
            ELSE Ret(FALSE)])

(* The callback of members.map in the Record case. *)
compileRecordField(property) ==
  IF isPropertySignature(property)
    THEN Fmap(LAMBDA a : Field(a[1], a[2]),
              SeqM(<<IdentifierCompile(property.name), TypCompile(property.type)>>))
    ELSE raise(Field("unknown", unit), property, "Expected named property")

compileRecord(members) ==
  Fmap(Record, SeqM([i \in 1..Len(members) |-> compileRecordField(members[i])]))

(* The object-literal case of TypDefinition.compile. *)
compileTypeLiteral(typ) ==
  Bind(withATypeField(typ.members),
       LAMBDA found : IF found THEN compileSumType(<<typ>>) ELSE compileRecord(typ.members))

(* compileUnion with the fallback for every union of members of two shapes. *)
compileUnionFallback(typ) ==
  IF \A i \in 1..Len(typ.types) : isTypeLiteralNode(typ.types[i])
    THEN compileSumType(typ.types)
  ELSE IF \A i \in 1..Len(typ.types) : isLiteralTypeNode(typ.types[i])
    THEN compileStringEnum(typ.types)
  ELSE raise(Synonym(unit), typ,
             "Only handle unions of strings or objects with a 'type' field")

(* The union case of TypDefinition.compile. *)
compileUnion(typ) ==
  IF isTypeLiteralNode(typ.types[1]) THEN compileSumType(typ.types)
  ELSE IF isLiteralTypeNode(typ.types[1]) THEN compileStringEnum(typ.types)
  ELSE raise(Synonym(unit), typ,
             "Only handle unions of strings or objects with a 'type' field")

(* The switch of TypDefinition.compile on the result of compileIfPlainTyp. *)
classify(compiledTyp) ==
  IF compiledTyp.type = "PlainTyp" THEN Ret(Synonym(compiledTyp.typ))
  ELSE IF isTypeLiteralNode(compiledTyp.typ) THEN compileTypeLiteral(compiledTyp.typ)
  ELSE IF isLiteralTypeNode(compiledTyp.typ) THEN compileStringEnum(<<compiledTyp.typ>>)
  ELSE IF isUnionTypeNode(compiledTyp.typ) THEN compileUnion(compiledTyp.typ)
  ELSE raise(Synonym(unit), compiledTyp.typ,
             "Only handle unions of strings or objects with a 'type' field")

TypDefinitionCompile(typ) == Bind(compileIfPlainTyp(typ), classify)

----------------------------------------------------------------------------
(* global.ts and Typ.getTypName. *)

(* The answer of an installed checker to getTypeAtLocation followed by     *)
(* typeToString: a finite table per checker.                               *)
typeToString(checker, node) ==
  IF node.kind = "Identifier" /\ checker = "checkerA"
    THEN (IF node.text = "status" THEN "Status" ELSE "Color")
  ELSE IF node.kind = "TypeReference" /\ node.typeName.kind = "Identifier"
    THEN node.typeName.text
  ELSE IF node.kind \in {"ObjectLiteralExpression", "ObjectBindingPattern"}
    THEN "Status"
  ELSE "any"

(* getTypeChecker without the test of the holder. *)
getTypeCheckerUnchecked == Ret(typeChecker)

getTypeChecker ==
  IF typeChecker = "null" THEN Throw(<<>>)  \* 'Type checker not initialized'
  ELSE Ret(typeChecker)

getTypName(node) ==
  Fmap(LAMBDA checker : typeToString(checker, node), getTypeChecker)

----------------------------------------------------------------------------
(* expression.ts: the target expressions and the statement compiler. *)

ExprVariable(name) == [type |-> "Variable", name |-> name]

tt == ExprVariable("tt")

Null == [type |-> "null"]

Constant(value) == [type |-> "Constant", value |-> value]

Let(body, lval, value) == [type |-> "Let", body |-> body, lval |-> lval, value |-> value]

EnumDestruct(branches, defaultBranch, discriminant, typName) ==
  [type |-> "EnumDestruct", branches |-> branches, defaultBranch |-> defaultBranch,
   discriminant |-> discriminant, typName |-> typName]

SumDestruct(branches, defaultBranch, discriminant, sum) ==
  [type |-> "SumDestruct", branches |-> branches, defaultBranch |-> defaultBranch,
   discriminant |-> discriminant, sum |-> sum]

LeftValueRecordField(name, variable) == [name |-> name, variable |-> variable]

isCaseClause(node) == node.kind = "CaseClause"

isDefaultClause(node) == node.kind = "DefaultClause"

(* getLeftValueRecordField with the field name and the variable exchanged. *)
getLeftValueRecordFieldExchanged(property) ==
  IF property.dotDotDotToken
    THEN raise(LeftValueRecordField("name", "variable"), property,
               "Unhandled rest element for record destructuring")
    ELSE Bind(IdentifierCompile(property.name),
              LAMBDA name :
                Fmap(LAMBDA field : LeftValueRecordField(name, field),
                     IF property.propertyName.kind # "undefined"
                       THEN IdentifierCompile(property.propertyName)
                       ELSE Ret(name)))

(* One element of the pattern in getLeftValueRecordFields. *)
getLeftValueRecordField(property) ==
  IF property.dotDotDotToken
    THEN raise(LeftValueRecordField("name", "variable"), property,
               "Unhandled rest element for record destructuring")
    ELSE \* ts.isBindingName(property.name) holds of every binding element
      Bind(IdentifierCompile(property.name),
           LAMBDA name :
             Fmap(LAMBDA field : LeftValueRecordField(field, name),
                  IF property.propertyName.kind # "undefined"
                    THEN IdentifierCompile(property.propertyName)
                    ELSE Ret(name)))

getLeftValueRecordFields(pattern) ==
  SeqM([i \in 1..Len(pattern.elements) |-> getLeftValueRecordField(pattern.elements[i])])

compileLVal(lval) ==
  IF lval.kind = "ArrayBindingPattern"
    THEN raise([type |-> "Variable", name |-> "array"], lval, "Unhandled array patterns")
  ELSE IF lval.kind = "Identifier"
    THEN Fmap(LAMBDA name : [type |-> "Variable", name |-> name], IdentifierCompile(lval))
  ELSE Fmap(LAMBDA a : [type |-> "Record", fields |-> a[2], record |-> a[1]],
            SeqM(<<getTypName(lval), getLeftValueRecordFields(lval)>>))

getStringOfStringLiteral(expression) ==
  IF isStringLiteral(expression) THEN Ret(expression.text)
  ELSE raise("expected_string", expression, "Expected a string literal")

FieldsDestructuring(fields, trailingStatements) ==
  [fields |-> fields, trailingStatements |-> trailingStatements]

(* getFieldsDestructuringFromDeclaration that skips every declaration at   *)
(* the head, destructuring or not.                                         *)
getFieldsDestructuringFromDeclarationSkippingHead(statements, discriminantName) ==
  IF /\ Len(Head(statements).declarations) = 1
     /\ Head(statements).declarations[1].initializer.kind = "Identifier"
     /\ Head(statements).declarations[1].initializer.text = discriminantName
     /\ Head(statements).declarations[1].name.kind = "ObjectBindingPattern"
    THEN Fmap(LAMBDA fields : FieldsDestructuring(fields, Tail(statements)),
              getLeftValueRecordFields(Head(statements).declarations[1].name))
    ELSE Ret(FieldsDestructuring(<<>>, Tail(statements)))

(* The variable-statement case of getFieldsDestructuringFromHeadStatement. *)
getFieldsDestructuringFromDeclaration(statements, discriminantName) ==
  LET headStatement == Head(statements)
      noDestructuring == FieldsDestructuring(<<>>, statements)
  IN  IF headStatement.declarations = <<>>
        THEN raise(noDestructuring, headStatement, "Expected at least one definition")
      ELSE IF Len(headStatement.declarations) >= 2
        THEN raise(noDestructuring, headStatement, "Expected a single definition of variable")
      ELSE IF /\ headStatement.declarations[1].initializer.kind = "Identifier"
              /\ headStatement.declarations[1].initializer.text = discriminantName
        THEN IF headStatement.declarations[1].name.kind = "ObjectBindingPattern"
               THEN Fmap(LAMBDA fields : FieldsDestructuring(fields, Tail(statements)),
                         getLeftValueRecordFields(headStatement.declarations[1].name))
               ELSE raise(noDestructuring, headStatement.declarations[1].name,
                          "Expected an object pattern to destructure a sum type")
      ELSE Ret(noDestructuring)

RECURSIVE getFieldsDestructuringFromHeadStatement(_, _)
getFieldsDestructuringFromHeadStatement(statements, discriminantName) ==
  IF statements = <<>> THEN Ret(FieldsDestructuring(<<>>, statements))
  ELSE IF Head(statements).kind = "Block"
    THEN getFieldsDestructuringFromHeadStatement(
           Head(statements).statements \o Tail(statements), discriminantName)
  ELSE IF Head(statements).kind = "VariableStatement"
    THEN getFieldsDestructuringFromDeclaration(statements, discriminantName)
  ELSE Ret(FieldsDestructuring(<<>>, statements))

ArrayExpression(elements) == [type |-> "ArrayExpression", elements |-> elements]

BinaryExpression(left, operator, right) ==
  [type |-> "BinaryExpression", left |-> left, operator |-> operator, right |-> right]

CallExpression(arguments, callee) ==
  [type |-> "CallExpression", arguments |-> arguments, callee |-> callee]

ConditionalExpression(alternate, consequent, test) ==
  [type |-> "ConditionalExpression", alternate |-> alternate, consequent |-> consequent,
   test |-> test]

FunctionExpression(value) == [type |-> "FunctionExpression", value |-> value]

Fun(arguments, body, returnTyp, typParameters) ==
  [arguments |-> arguments, body |-> body, returnTyp |-> returnTyp,
   typParameters |-> typParameters]

FunArgument(name, typ) == [name |-> name, typ |-> typ]

RecordField(name, value) == [name |-> name, value |-> value]

RecordInstance(fields, record) ==
  [type |-> "RecordInstance", fields |-> fields, record |-> record]

RecordProjection(field, object, record) ==
  [type |-> "RecordProjection", field |-> field, object |-> object, record |-> record]

RecordUpdate(field, object, record, update) ==
  [type |-> "RecordUpdate", field |-> field, object |-> object, record |-> record,
   update |-> update]

SumInstance(constr, fields, sum) ==
  [type |-> "SumInstance", constr |-> constr, fields |-> fields, sum |-> sum]

UnaryExpression(argument, operator) ==
  [type |-> "UnaryExpression", argument |-> argument, operator |-> operator]

compilePrefixUnaryOperator(operator) ==
  CASE operator = "PlusPlusToken" -> "++"
    [] operator = "MinusMinusToken" -> "--"
    [] operator = "ExclamationToken" -> "!"
    [] operator = "TildeToken" -> "~"
    [] operator = "PlusToken" -> "+"
    [] operator = "MinusToken" -> "-"

(* Number(expression.text) on the decimal texts of the model's literals. *)
NumberOfText(text) ==
  CASE text = "0" -> 0
    [] text = "1" -> 1
    [] text = "2" -> 2
    [] text = "12" -> 12
    [] OTHER -> 1000

RECURSIVE compileStatements(_), ExpressionCompile(_, _), reduceEnumClauses(_, _),
          reduceProperties(_, _)

(* One case clause of a switch on x.type: the fields, then the body, then  *)
(* the name.                                                               *)
compileSumClause(clause, discriminantName) ==
  Bind(getFieldsDestructuringFromHeadStatement(clause.statements, discriminantName),
       LAMBDA d :
         Fmap(LAMBDA a : [body |-> a[1], fields |-> d.fields, name |-> a[2]],
              SeqM(<<compileStatements(d.trailingStatements),
                     getStringOfStringLiteral(clause.expression)>>)))

(* compileDefaultBranch that gives null for a default clause without statements. *)
compileDefaultBranchIfNonEmpty(clauses) ==
  IF /\ SelectSeq(clauses, isDefaultClause) # <<>>
     /\ Head(SelectSeq(clauses, isDefaultClause)).statements # <<>>
    THEN compileStatements(Head(SelectSeq(clauses, isDefaultClause)).statements)
    ELSE Ret(Null)

(* defaultClauses[0] !== undefined ? compileStatements(its statements) : null *)
compileDefaultBranch(clauses) ==
  IF SelectSeq(clauses, isDefaultClause) # <<>>
    THEN compileStatements(Head(SelectSeq(clauses, isDefaultClause)).statements)
    ELSE Ret(Null)

(* compileSumSwitch that gives no branch to a case clause without body. *)
compileSumSwitchSkippingEmpty(statement) ==
  Fmap(LAMBDA a : SumDestruct(a[1], a[2], a[3], a[4]),
       SeqM(<<SeqM([i \in 1..Len(SelectSeq(statement.clauses,
                                           LAMBDA c : isCaseClause(c) /\ c.statements # <<>>)) |->
                      compileSumClause(
                        SelectSeq(statement.clauses,
                                  LAMBDA c : isCaseClause(c) /\ c.statements # <<>>)[i],
                        statement.expression.expression.text)]),
              compileDefaultBranch(statement.clauses),
              ExpressionCompile(statement.expression.expression, Undefined),
              getTypName(statement.expression.expression)>>))

(* A switch on the field 'type' of the identifier statement.expression.expression. *)
compileSumSwitch(statement) ==
  Fmap(LAMBDA a : SumDestruct(a[1], a[2], a[3], a[4]),
       SeqM(<<SeqM([i \in 1..Len(SelectSeq(statement.clauses, isCaseClause)) |->
                      compileSumClause(SelectSeq(statement.clauses, isCaseClause)[i],
                                       statement.expression.expression.text)]),
              compileDefaultBranch(statement.clauses),
              ExpressionCompile(statement.expression.expression, Undefined),
              getTypName(statement.expression.expression)>>))

EnumAccumulator(accumulatedNames, caseClauses) ==
  [accumulatedNames |-> accumulatedNames, caseClauses |-> caseClauses]

(* enumClauseStep without the reset of the accumulated names. *)
enumClauseStepKeepingNames(acc, clause) ==
  IF isDefaultClause(clause) THEN Ret(EnumAccumulator(<<>>, acc.caseClauses))
  ELSE Bind(getStringOfStringLiteral(clause.expression),
            LAMBDA name :
              IF Len(clause.statements) = 0
                THEN Ret(EnumAccumulator(Append(acc.accumulatedNames, name), acc.caseClauses))
                ELSE Fmap(LAMBDA body :
                            EnumAccumulator(
                              acc.accumulatedNames,
                              Append(acc.caseClauses,
                                     [body |-> body,
                                      names |-> Append(acc.accumulatedNames, name)])),
                          compileStatements(clause.statements)))

(* enumClauseStep whose default clause leaves the accumulated names. *)
enumClauseStepOverDefault(acc, clause) ==
  IF isDefaultClause(clause) THEN Ret(acc)
  ELSE Bind(getStringOfStringLiteral(clause.expression),
            LAMBDA name :
              IF Len(clause.statements) = 0
                THEN Ret(EnumAccumulator(Append(acc.accumulatedNames, name), acc.caseClauses))
                ELSE Fmap(LAMBDA body :
                            EnumAccumulator(
                              <<>>,
                              Append(acc.caseClauses,
                                     [body |-> body,
                                      names |-> Append(acc.accumulatedNames, name)])),
                          compileStatements(clause.statements)))

enumClauseStep(acc, clause) ==
  IF isDefaultClause(clause) THEN Ret(EnumAccumulator(<<>>, acc.caseClauses))
  ELSE Bind(getStringOfStringLiteral(clause.expression),
            LAMBDA name :
              IF Len(clause.statements) = 0
                THEN Ret(EnumAccumulator(Append(acc.accumulatedNames, name), acc.caseClauses))
                ELSE Fmap(LAMBDA body :
                            EnumAccumulator(
                              <<>>,
                              Append(acc.caseClauses,
                                     [body |-> body,
                                      names |-> Append(acc.accumulatedNames, name)])),
                          compileStatements(clause.statements)))

(* clauses.reduce(callback, acc) *)
reduceEnumClauses(clauses, acc) ==
  IF clauses = <<>> THEN Ret(acc)
  ELSE Bind(enumClauseStep(acc, Head(clauses)),
            LAMBDA next : reduceEnumClauses(Tail(clauses), next))

(* The branches of the EnumDestruct from the final accumulator. *)
enumBranches(acc) ==
  acc.caseClauses
  \o (IF Len(acc.accumulatedNames) # 0
        THEN <<[body |-> tt, names |-> acc.accumulatedNames]>> ELSE <<>>)

compileEnumSwitch(statement) ==
  Fmap(LAMBDA a : EnumDestruct(enumBranches(a[1]), a[2], a[3], a[4]),
       SeqM(<<reduceEnumClauses(statement.clauses, EnumAccumulator(<<>>, <<>>)),
              compileDefaultBranch(statement.clauses),
              ExpressionCompile(statement.expression, Undefined),
              getTypName(statement.expression)>>))

(* raiseAndContinue that pushes the diagnostic before it compiles the rest. *)
raiseThenContinue(rest, node, message) ==
  Join(<<[message |-> message, node |-> node]>>, compileStatements(rest))

(* raise(compileStatements(rest), node, message): the rest is compiled     *)
(* before the diagnostic is pushed.                                        *)
raiseAndContinue(rest, node, message) ==
  Bind(compileStatements(rest), LAMBDA compiled : raise(compiled, node, message))

(* compileSwitch that takes a switch on any other field as an enum switch. *)
compileSwitchOtherFieldAsEnum(statement, rest) ==
  IF statement.expression.kind = "PropertyAccessExpression"
    THEN Bind(IdentifierCompile(statement.expression.name),
              LAMBDA field :
                IF field # "type"
                  THEN compileEnumSwitch(statement)
                ELSE IF statement.expression.expression.kind = "Identifier"
                  THEN compileSumSwitch(statement)
                ELSE raiseAndContinue(rest, statement.expression.expression,
                       "Expected a switch on an identifier to destructure a sum type"))
    ELSE compileEnumSwitch(statement)

compileSwitch(statement, rest) ==
  IF statement.expression.kind = "PropertyAccessExpression"
    THEN Bind(IdentifierCompile(statement.expression.name),
              LAMBDA field :
                IF field # "type"
                  THEN raiseAndContinue(rest, statement,
                         "Expected an access on the 'type' field to destructure a sum type")
                ELSE IF statement.expression.expression.kind = "Identifier"
                  THEN compileSumSwitch(statement)
                ELSE raiseAndContinue(rest, statement.expression.expression,
                       "Expected a switch on an identifier to destructure a sum type"))
    ELSE compileEnumSwitch(statement)

(* compileVariableStatement that stops at a statement of two declarations. *)
compileVariableStatementStopping(statement, rest) ==
  IF statement.declarations = <<>>
    THEN raiseAndContinue(rest, statement, "Expected at least one definition")
  ELSE IF Len(statement.declarations) >= 2
    THEN raise(tt, statement, "Expected exactly one definition")
  ELSE Fmap(LAMBDA a : Let(a[1], a[2], a[3]),
            SeqM(<<compileStatements(rest),
                   compileLVal(statement.declarations[1].name),
                   IF statement.declarations[1].initializer.kind # "undefined"
                     THEN ExpressionCompile(statement.declarations[1].initializer, Undefined)
                     ELSE raise(tt, statement.declarations[1],
                                "Expected a definition with a value")>>))

compileVariableStatement(statement, rest) ==
  IF statement.declarations = <<>>
    THEN raiseAndContinue(rest, statement, "Expected at least one definition")
  ELSE IF Len(statement.declarations) >= 2
    THEN raiseAndContinue(rest, statement, "Expected exactly one definition")
  ELSE Fmap(LAMBDA a : Let(a[1], a[2], a[3]),
            SeqM(<<compileStatements(rest),
                   compileLVal(statement.declarations[1].name),
                   IF statement.declarations[1].initializer.kind # "undefined"
                     THEN ExpressionCompile(statement.declarations[1].initializer, Undefined)
                     ELSE raise(tt, statement.declarations[1],
                                "Expected a definition with a value")>>))

compileStatements(statements) ==
  IF statements = <<>> THEN Ret(tt)
  ELSE IF Head(statements).kind = "Block"
    THEN compileStatements(Head(statements).statements \o Tail(statements))
  ELSE IF Head(statements).kind = "ReturnStatement"
    THEN IF Head(statements).expression.kind # "undefined"
           THEN ExpressionCompile(Head(statements).expression, Undefined)
           ELSE Ret(tt)
  ELSE IF Head(statements).kind = "SwitchStatement"
    THEN compileSwitch(Head(statements), Tail(statements))
  ELSE IF Head(statements).kind = "VariableStatement"
    THEN compileVariableStatement(Head(statements), Tail(statements))
  ELSE raiseAndContinue(Tail(statements), Head(statements), "Unhandled statement")

(* One parameter of a function: {name, typ: parameter.type ? ... : null}. *)
compileParameter(parameter) ==
  Fmap(LAMBDA a : FunArgument(a[1], a[2]),
       SeqM(<<IdentifierCompile(parameter.name),
              IF parameter.type.kind # "undefined" THEN TypCompile(parameter.type)
              ELSE Ret(Null)>>))

compileTypeParameters(typeParameters) ==
  SeqM([i \in 1..Len(typeParameters) |-> IdentifierCompile(typeParameters[i].name)])

(* The return type annotation fun.type is not read: returnTyp is null. *)
compileFun(fun) ==
  Fmap(LAMBDA a : Fun(a[1], a[2], Null, a[3]),
       SeqM(<<SeqM([i \in 1..Len(fun.parameters) |-> compileParameter(fun.parameters[i])]),
              IF fun.body.kind = "undefined" THEN Throw(<<>>)  \* ts.isBlock(undefined)
              ELSE IF fun.body.kind = "Block" THEN compileStatements(fun.body.statements)
              ELSE ExpressionCompile(fun.body, Undefined),
              compileTypeParameters(fun.typeParameters)>>))

ObjectAccumulator(names, fields, spreads) ==
  [names |-> names, fields |-> fields, spreads |-> spreads]

(* propertyStep that puts a field of a property assignment before the      *)
(* fields accumulated so far.                                              *)
propertyStepPrepending(acc, property) ==
  IF property.kind = "PropertyAssignment"
    THEN Bind(IdentifierCompile(property.name),
              LAMBDA name :
                IF name = "type"
                  THEN Fmap(LAMBDA constr :
                              ObjectAccumulator(Append(acc.names, constr), acc.fields,
                                                acc.spreads),
                            getStringOfStringLiteral(property.initializer))
                  ELSE Fmap(LAMBDA value :
                              ObjectAccumulator(acc.names,
                                                <<RecordField(name, value)>> \o acc.fields,
                                                acc.spreads),
                            ExpressionCompile(property.initializer, Undefined)))
  ELSE IF property.kind = "ShorthandPropertyAssignment"
    THEN Fmap(LAMBDA name :
                ObjectAccumulator(acc.names,
                                  Append(acc.fields, RecordField(name, ExprVariable(name))),
                                  acc.spreads),
              IdentifierCompile(property.name))
  ELSE IF property.kind = "SpreadAssignment"
    THEN IF Len(acc.names) # 0 \/ Len(acc.fields) # 0
           THEN raise(acc, property, "Spread element must be the first element of the object")
           ELSE Fmap(LAMBDA spread :
                       ObjectAccumulator(acc.names, acc.fields, Append(acc.spreads, spread)),
                     ExpressionCompile(property.expression, Undefined))
  ELSE raise(acc, property, "Unhandled kind of property")

(* The callback of properties.reduce in the object-literal case. *)
propertyStep(acc, property) ==
  IF property.kind = "PropertyAssignment"
    THEN Bind(IdentifierCompile(property.name),
              LAMBDA name :
                IF name = "type"
                  THEN Fmap(LAMBDA constr :
                              ObjectAccumulator(Append(acc.names, constr), acc.fields,
                                                acc.spreads),
                            getStringOfStringLiteral(property.initializer))
                  ELSE Fmap(LAMBDA value :
                              ObjectAccumulator(acc.names,
                                                Append(acc.fields, RecordField(name, value)),
                                                acc.spreads),
                            ExpressionCompile(property.initializer, Undefined)))
  ELSE IF property.kind = "ShorthandPropertyAssignment"
    THEN Fmap(LAMBDA name :
                ObjectAccumulator(acc.names,
                                  Append(acc.fields, RecordField(name, ExprVariable(name))),
                                  acc.spreads),
              IdentifierCompile(property.name))
  ELSE IF property.kind = "SpreadAssignment"
    THEN IF Len(acc.names) # 0 \/ Len(acc.fields) # 0
           THEN raise(acc, property, "Spread element must be the first element of the object")
           ELSE Fmap(LAMBDA spread :
                       ObjectAccumulator(acc.names, acc.fields, Append(acc.spreads, spread)),
                     ExpressionCompile(property.expression, Undefined))
  ELSE raise(acc, property, "Unhandled kind of property")

reduceProperties(properties, acc) ==
  IF properties = <<>> THEN Ret(acc)
  ELSE Bind(propertyStep(acc, Head(properties)),
            LAMBDA next : reduceProperties(Tail(properties), next))

RECURSIVE foldRecordUpdate(_, _, _), foldRecordUpdateFromTheRight(_, _, _)

(* foldRecordUpdate as a fold from the last field to the first. *)
foldRecordUpdateFromTheRight(fields, typName, accumulator) ==
  IF fields = <<>> THEN accumulator
  ELSE RecordUpdate(Head(fields).name,
                    foldRecordUpdateFromTheRight(Tail(fields), typName, accumulator),
                    typName, Head(fields).value)

(* fields.reduce(... RecordUpdate ..., base) *)
foldRecordUpdate(fields, typName, accumulator) ==
  IF fields = <<>> THEN accumulator
  ELSE foldRecordUpdate(Tail(fields), typName,
                        RecordUpdate(Head(fields).name, accumulator, typName,
                                     Head(fields).value))

(* objectOfProperties without the rejection of several spreads and of a    *)
(* spread in a sum.                                                        *)
objectOfPropertiesFirstSpread(expression, acc, typName) ==
  IF Len(acc.names) >= 2 THEN raise(tt, expression, "Multiple type names")
  ELSE IF acc.names = <<>>
    THEN IF acc.spreads = <<>>
           THEN Ret(RecordInstance(acc.fields, typName))
           ELSE Ret(foldRecordUpdate(acc.fields, typName, acc.spreads[1]))
  ELSE Ret(SumInstance(acc.names[1], acc.fields, typName))

(* The end of the object-literal case, after the reduce and the type query. *)
objectOfProperties(expression, acc, typName) ==
  IF Len(acc.names) >= 2 THEN raise(tt, expression, "Multiple type names")
  ELSE IF Len(acc.spreads) >= 2 THEN raise(tt, expression, "Multiple spreads")
  ELSE IF acc.names = <<>>
    THEN IF acc.spreads = <<>>
           THEN Ret(RecordInstance(acc.fields, typName))
           ELSE Ret(foldRecordUpdate(acc.fields, typName, acc.spreads[1]))
  ELSE IF Len(acc.spreads) = 0
    THEN Ret(SumInstance(acc.names[1], acc.fields, typName))
  ELSE raise(tt, expression, "Spread elements in sum types are not handled")

(* compileObjectLiteral that names the type of the literal itself. *)
compileObjectLiteralByOwnType(expression, expectedAsTyp) ==
  IF Len(expression.properties) = 0 THEN Ret(tt)
  ELSE Bind(reduceProperties(expression.properties, ObjectAccumulator(<<>>, <<>>, <<>>)),
            LAMBDA acc :
              Bind(getTypName(expression),
                   LAMBDA typName : objectOfProperties(expression, acc, typName)))

compileObjectLiteral(expression, expectedAsTyp) ==
  IF Len(expression.properties) = 0 THEN Ret(tt)
  ELSE Bind(reduceProperties(expression.properties, ObjectAccumulator(<<>>, <<>>, <<>>)),
            LAMBDA acc :
              Bind(IF expectedAsTyp.kind # "undefined" THEN getTypName(expectedAsTyp)
                   ELSE getTypName(expression),
                   LAMBDA typName : objectOfProperties(expression, acc, typName)))

ExpressionCompile(expression, expectedAsTyp) ==
  IF expression.kind = "undefined" THEN Throw(<<>>)  \* expression.kind of undefined
  ELSE IF expression.kind = "ArrayLiteralExpression"
    THEN Fmap(ArrayExpression,
              SeqM([i \in 1..Len(expression.elements) |->
                      ExpressionCompile(expression.elements[i], Undefined)]))
  ELSE IF expression.kind = "ArrowFunction"
    THEN Fmap(FunctionExpression, compileFun(expression))
  ELSE IF expression.kind = "AsExpression"
    THEN ExpressionCompile(expression.expression, expression.type)
  ELSE IF expression.kind = "BinaryExpression"
    THEN Fmap(LAMBDA a : BinaryExpression(a[1], expression.operatorToken, a[2]),
              SeqM(<<ExpressionCompile(expression.left, Undefined),
                     ExpressionCompile(expression.right, Undefined)>>))
  ELSE IF expression.kind = "FalseKeyword" THEN Ret(Constant([boolean |-> FALSE]))
  ELSE IF expression.kind = "TrueKeyword" THEN Ret(Constant([boolean |-> TRUE]))
  ELSE IF expression.kind = "CallExpression"
    THEN Fmap(LAMBDA a : CallExpression(a[1], a[2]),
              SeqM(<<SeqM([i \in 1..Len(expression.arguments) |->
                             ExpressionCompile(expression.arguments[i], Undefined)]),
                     ExpressionCompile(expression.expression, Undefined)>>))
  ELSE IF expression.kind = "ConditionalExpression"
    THEN Fmap(LAMBDA a : ConditionalExpression(a[1], a[2], a[3]),
              SeqM(<<ExpressionCompile(expression.whenFalse, Undefined),
                     ExpressionCompile(expression.whenTrue, Undefined),
                     ExpressionCompile(expression.condition, Undefined)>>))
  ELSE IF expression.kind = "FunctionExpression"
    THEN Fmap(FunctionExpression, compileFun(expression))
  ELSE IF expression.kind = "Identifier" THEN Ret(ExprVariable(expression.text))
  ELSE IF expression.kind = "PropertyAccessExpression"
    THEN Fmap(LAMBDA a : RecordProjection(a[1], a[2], a[3]),
              SeqM(<<IdentifierCompile(expression.name),
                     ExpressionCompile(expression.expression, Undefined),
                     getTypName(expression.expression)>>))
  ELSE IF expression.kind = "NullKeyword" THEN Ret(tt)
  ELSE IF expression.kind = "NumericLiteral"
    THEN Ret(Constant([number |-> NumberOfText(expression.text)]))
  ELSE IF expression.kind = "ObjectLiteralExpression"
    THEN compileObjectLiteral(expression, expectedAsTyp)
  ELSE IF isStringLiteral(expression) THEN Ret(Constant([string |-> expression.text]))
  ELSE IF expression.kind = "PrefixUnaryExpression"
    THEN Fmap(LAMBDA argument :
                UnaryExpression(argument, compilePrefixUnaryOperator(expression.operator)),
              ExpressionCompile(expression.operand, Undefined))
  ELSE raise(tt, expression, "Unhandled kind of expression")

----------------------------------------------------------------------------
(* top-level-statement.ts *)

Definition(arguments, body, name, returnTyp, typParameters) ==
  [type |-> "Definition", arguments |-> arguments, body |-> body, name |-> name,
   returnTyp |-> returnTyp, typParameters |-> typParameters]

TypeDefinition(name, typDefinition) ==
  [type |-> "TypeDefinition", name |-> name, typDefinition |-> typDefinition]

(* One declaration of a top-level variable statement. *)
compileTopLevelDeclaration(declaration) ==
  Fmap(LAMBDA a : Definition(<<>>, a[1], a[2], Null, <<>>),
       SeqM(<<ExpressionCompile(declaration.initializer, declaration.type),
              IdentifierCompile(declaration.name)>>))

compileFunctionDeclaration(node) ==
  Fmap(LAMBDA a : <<Definition(a[1], a[2], a[3], Null, a[4])>>,
       SeqM(<<SeqM([i \in 1..Len(node.parameters) |-> compileParameter(node.parameters[i])]),
              IF node.body.kind = "undefined" THEN Throw(<<>>)  \* node.body!.statements
              ELSE compileStatements(node.body.statements),
              IF node.name.kind # "undefined" THEN IdentifierCompile(node.name)
              ELSE Ret("anonymousFunction"),
              compileTypeParameters(node.typeParameters)>>))

TopLevelCompile(node) ==
  IF node.kind = "VariableStatement"
    THEN SeqM([i \in 1..Len(node.declarations) |->
                 compileTopLevelDeclaration(node.declarations[i])])
  ELSE IF node.kind = "FunctionDeclaration" THEN compileFunctionDeclaration(node)
  ELSE IF node.kind = "TypeAliasDeclaration"
    THEN Fmap(LAMBDA a : <<TypeDefinition(a[1], a[2])>>,
              SeqM(<<IdentifierCompile(node.name), TypDefinitionCompile(node.type)>>))
  ELSE raise(<<>>, node, "Expected a top-level statement")

----------------------------------------------------------------------------
(* doc.ts and the printers.  A document is the sequence of its strings and *)
(* line markers, in the order of the output; group and indent only decide  *)
(* where the lines break and keep this sequence.                           *)

line == "<line>"

softline == "<softline>"

hardline == "<hardline>"

group(doc) == doc

indent(doc) == doc

(* doc.builders.join(separator, docs) *)
RECURSIVE join(_, _)
join(separator, docs) ==
  IF docs = <<>> THEN <<>>
  ELSE IF Len(docs) = 1 THEN Head(docs)
  ELSE Head(docs) \o separator \o join(separator, Tail(docs))

(* paren that never adds the parentheses. *)
parenNever(needParens, doc) == doc

(* doc.ts: paren *)
paren(needParens, doc) ==
  IF needParens THEN group(<<"(">> \o doc \o <<")">>) ELSE doc

(* typ.ts: printImplicitTyps *)
printImplicitTyps(names) ==
  group(<<"{">>
        \o indent(<<softline>> \o join(<<line>>, [i \in 1..Len(names) |-> <<names[i]>>])
                  \o <<line>> \o group(<<":", line, "Type">>))
        \o <<softline, "}">>)

(* typ.ts: print *)
RECURSIVE TypPrint(_, _)
TypPrint(needParens, typ) ==
  IF typ.type = "Function"
    THEN paren(needParens,
               group((IF Len(typ.typParams) # 0
                        THEN group(<<"forall", line, "{">>
                                   \o indent(group(
                                        <<softline>>
                                        \o Flatten([i \in 1..Len(typ.typParams) |->
                                                      <<typ.typParams[i], line>>])
                                        \o group(<<":", line, "Type">>)))
                                   \o <<softline, "}", ",", line>>)
                        ELSE <<>>)
                     \o Flatten([i \in 1..Len(typ.params) |->
                                   group(TypPrint(TRUE, typ.params[i])
                                         \o <<line, "->", line>>)])
                     \o TypPrint(TRUE, typ.returnTyp)))
  ELSE IF typ.type = "Implicit" THEN group(<<"_">>)
  ELSE IF typ.type = "Tuple"
    THEN IF Len(typ.params) = 0 THEN group(<<"unit">>)
         ELSE paren(needParens,
                    group(join(<<line, "*", line>>,
                               [i \in 1..Len(typ.params) |-> TypPrint(TRUE, typ.params[i])])))
  ELSE paren(needParens /\ Len(typ.params) # 0,
             group(<<typ.name>>
                   \o indent(Flatten([i \in 1..Len(typ.params) |->
                                        <<line>> \o TypPrint(TRUE, typ.params[i])]))))

(* typ.ts: printReturnTyp; typ is null or a type. *)
printReturnTyp(typ, nextToken) ==
  group((IF typ.type # "null" THEN <<":", line>> \o TypPrint(FALSE, typ) \o <<line>>
         ELSE <<>>)
        \o nextToken)

(* expression.ts: the target expressions that compile does not build. *)
EnumInstance(instance, typName) ==
  [type |-> "EnumInstance", instance |-> instance, typName |-> typName]

TypeCastExpression(expression, typeAnnotation) ==
  [type |-> "TypeCastExpression", expression |-> expression,
   typeAnnotation |-> typeAnnotation]

(* JSON.stringify of the value of a constant. *)
stringify(value) ==
  IF "number" \in DOMAIN value THEN ToString(value.number)
  ELSE IF "boolean" \in DOMAIN value THEN (IF value.boolean THEN "true" ELSE "false")
  ELSE "\"" \o value.string \o "\""

printFunArguments(funArguments) ==
  Flatten([i \in 1..Len(funArguments) |->
             <<line>>
             \o (IF funArguments[i].typ.type # "null"
                   THEN group(<<"(", funArguments[i].name, line, ":", line>>
                              \o TypPrint(FALSE, funArguments[i].typ) \o <<")">>)
                   ELSE <<funArguments[i].name>>)])

printCallExpression(needParens, callee, args) ==
  paren(needParens, group(indent(join(<<line>>, <<callee>> \o args))))

(* record is a string, or "" for null: both take the same branch; the      *)
(* value of a field is a document.                                         *)
printRecordInstance(record, fields) ==
  group(<<"{|">>
        \o indent(Flatten([i \in 1..Len(fields) |->
                    <<line>>
                    \o group(group(<<IF record # "" THEN record \o "." \o fields[i].name
                                     ELSE fields[i].name,
                                     line, ":=">>)
                             \o indent(<<line>> \o fields[i].value \o <<";">>))]))
        \o <<line, "|}">>)

printLeftValue(lval, withQuote) ==
  IF lval.type = "Record"
    THEN IF Len(lval.fields) = 0 THEN <<"_">>
         ELSE (IF withQuote THEN <<"'">> ELSE <<>>)
              \o printRecordInstance(
                   lval.record,
                   [i \in 1..Len(lval.fields) |->
                      [name |-> lval.fields[i].name, value |-> <<lval.fields[i].variable>>]])
    ELSE <<lval.name>>

(* printPattern that leaves the field bindings out. *)
printPatternWithoutFields(pattern, typName) ==
  group(<<"|", line, typName \o "." \o pattern.name>>)

(* One pattern of a branch of printMatch; fields is null or a list. *)
printPattern(pattern, typName) ==
  group(<<"|", line, typName \o "." \o pattern.name>>
        \o (IF "fields" \in DOMAIN pattern
              THEN <<line>>
                   \o printLeftValue([type |-> "Record", fields |-> pattern.fields,
                                      record |-> typName \o "." \o pattern.name], FALSE)
              ELSE <<>>))

(* defaultBranch is a document, or the empty document for null. *)
printMatch(discriminant, branches, defaultBranch, typName) ==
  group(group(<<"match", line>> \o discriminant \o <<line, "with">>)
        \o <<hardline>>
        \o Flatten([i \in 1..Len(branches) |->
                      group(join(<<line>>,
                                 [k \in 1..Len(branches[i].patterns) |->
                                    printPattern(branches[i].patterns[k], typName)])
                            \o <<line, "=>">>
                            \o indent(<<line>> \o branches[i].body)
                            \o <<hardline>>)])
        \o (IF defaultBranch # <<>> /\ defaultBranch # <<"">>
              THEN group(group(<<"|", line, "_", line, "=>">>)
                         \o indent(<<line>> \o defaultBranch)
                         \o <<hardline>>)
              ELSE <<>>)
        \o <<"end">>)

RECURSIVE ExpressionPrint(_, _)

(* The case ConditionalExpression of print. *)
printConditional(needParens, expression) ==
  paren(needParens,
        group(group(<<"if", line>> \o ExpressionPrint(FALSE, expression.test)
                    \o <<line, "then">>)
              \o indent(<<line>> \o ExpressionPrint(FALSE, expression.consequent))
              \o <<line, "else">>
              \o indent(<<line>> \o ExpressionPrint(FALSE, expression.alternate))))

(* print with the operands of a binary expression printed without flag. *)
printBinaryBareOperands(needParens, expression) ==
  paren(needParens,
        group(join(<<line>>, <<ExpressionPrint(FALSE, expression.left),
                               <<expression.operator>>,
                               ExpressionPrint(FALSE, expression.right)>>)))

(* The case BinaryExpression of print. *)
printBinary(needParens, expression) ==
  paren(needParens,
        group(join(<<line>>, <<ExpressionPrint(TRUE, expression.left),
                               <<expression.operator>>,
                               ExpressionPrint(TRUE, expression.right)>>)))

(* The case FunctionExpression of print. *)
printFunction(needParens, expression) ==
  paren(needParens,
        group(group(<<"fun">>
                    \o indent((IF Len(expression.value.typParameters) # 0
                                 THEN <<line>> \o printImplicitTyps(expression.value.typParameters)
                                 ELSE <<>>)
                              \o printFunArguments(expression.value.arguments))
                    \o <<line, "=>">>)
              \o indent(<<line>> \o ExpressionPrint(FALSE, expression.value.body))))

(* The fields of a record or sum instance with their values printed. *)
printFields(fields) ==
  [i \in 1..Len(fields) |->
     [name |-> fields[i].name, value |-> ExpressionPrint(FALSE, fields[i].value)]]

(* defaultBranch && print(false, defaultBranch) *)
printDefaultBranch(defaultBranch) ==
  IF defaultBranch.type = "null" THEN <<>> ELSE ExpressionPrint(FALSE, defaultBranch)

(* The case SumInstance of print. *)
printSumInstance(needParens, expression) ==
  paren(needParens,
        group(<<expression.sum \o "." \o expression.constr, line>>
              \o (IF Len(expression.fields) # 0
                    THEN printRecordInstance(expression.sum \o "." \o expression.constr,
                                             printFields(expression.fields))
                    ELSE <<"tt">>)))

(* expression.ts: print *)
ExpressionPrint(needParens, expression) ==
  CASE expression.type = "ArrayExpression" ->
         IF Len(expression.elements) = 0 THEN <<"[]">>
         ELSE group(<<"[">>
                    \o indent(<<line>>
                              \o join(<<";", line>>,
                                      [i \in 1..Len(expression.elements) |->
                                         ExpressionPrint(FALSE, expression.elements[i])]))
                    \o <<line, "]">>)
    [] expression.type = "BinaryExpression" -> printBinary(needParens, expression)
    [] expression.type = "CallExpression" ->
         printCallExpression(needParens, ExpressionPrint(TRUE, expression.callee),
                             [i \in 1..Len(expression.arguments) |->
                                ExpressionPrint(TRUE, expression.arguments[i])])
    [] expression.type = "ConditionalExpression" -> printConditional(needParens, expression)
    [] expression.type = "Constant" -> <<stringify(expression.value)>>
    [] expression.type = "EnumDestruct" ->
         printMatch(ExpressionPrint(FALSE, expression.discriminant),
                    [i \in 1..Len(expression.branches) |->
                       [body |-> ExpressionPrint(FALSE, expression.branches[i].body),
                        patterns |-> [k \in 1..Len(expression.branches[i].names) |->
                                        [name |-> expression.branches[i].names[k]]]]],
                    printDefaultBranch(expression.defaultBranch),
                    expression.typName)
    [] expression.type = "EnumInstance" ->
         <<expression.typName \o "." \o expression.instance>>
    [] expression.type = "FunctionExpression" -> printFunction(needParens, expression)
    [] expression.type = "Let" ->
         group(group(<<"let", line>> \o printLeftValue(expression.lval, TRUE) \o <<line, ":=">>)
               \o indent(<<line>> \o ExpressionPrint(FALSE, expression.value))
               \o <<line, "in", hardline>>
               \o ExpressionPrint(FALSE, expression.body))
    [] expression.type = "RecordInstance" ->
         printRecordInstance(expression.record, printFields(expression.fields))
    [] expression.type = "RecordProjection" ->
         group(ExpressionPrint(TRUE, expression.object)
               \o <<softline, ".(">>
               \o indent(group(<<softline, expression.record, ".", expression.field>>))
               \o <<softline, ")">>)
    [] expression.type = "RecordUpdate" ->
         printCallExpression(needParens,
                             <<expression.record \o ".set_" \o expression.field>>,
                             <<ExpressionPrint(TRUE, expression.object),
                               ExpressionPrint(TRUE, expression.update)>>)
    [] expression.type = "SumDestruct" ->
         printMatch(ExpressionPrint(FALSE, expression.discriminant),
                    [i \in 1..Len(expression.branches) |->
                       [body |-> ExpressionPrint(FALSE, expression.branches[i].body),
                        patterns |-> <<[fields |-> expression.branches[i].fields,
                                        name |-> expression.branches[i].name]>>]],
                    printDefaultBranch(expression.defaultBranch),
                    expression.sum)
    [] expression.type = "SumInstance" -> printSumInstance(needParens, expression)
    [] expression.type = "TypeCastExpression" ->
         group(<<"(", softline>>
               \o ExpressionPrint(TRUE, expression.expression)
               \o <<line, ":", line>>
               \o TypPrint(FALSE, expression.typeAnnotation)
               \o <<softline, ")">>)
    [] expression.type = "UnaryExpression" ->
         paren(needParens,
               group(<<expression.operator, line>>
                     \o ExpressionPrint(TRUE, expression.argument)))
    [] expression.type = "Variable" -> <<expression.name>>

----------------------------------------------------------------------------
(* The syntax-tree nodes the parser builds for types. *)

Kw(kind) == [kind |-> kind]

Identifier(text) == [kind |-> "Identifier", text |-> text]

StringLiteral(text) == [kind |-> "StringLiteral", text |-> text]

NumericLiteral(text) == [kind |-> "NumericLiteral", text |-> text]

QualifiedName(text) == [kind |-> "QualifiedName", text |-> text]

LiteralType(literal) == [kind |-> "LiteralType", literal |-> literal]

PropertySignature(name, type) == [kind |-> "PropertySignature", name |-> name, type |-> type]

MethodSignature(name) == [kind |-> "MethodSignature", name |-> name]

TypeLiteral(members) == [kind |-> "TypeLiteral", members |-> members]

UnionType(types) == [kind |-> "UnionType", types |-> types]

TupleType(elements) == [kind |-> "TupleType", elements |-> elements]

ArrayType(elementType) == [kind |-> "ArrayType", elementType |-> elementType]

TypeReference(typeName) == [kind |-> "TypeReference", typeName |-> typeName]

Parameter(name, type) == [kind |-> "Parameter", name |-> name, type |-> type]

TypeParameter(name) == [kind |-> "TypeParameter", name |-> name]

FunctionType(parameters, type, typeParameters) ==
  [kind |-> "FunctionType", parameters |-> parameters, type |-> type,
   typeParameters |-> typeParameters]

(* The types compileIfPlainTyp tests for by kind, and an unhandled one. *)
KeywordTypes ==
  {Kw(k) : k \in {"AnyKeyword", "BooleanKeyword", "NeverKeyword", "NullKeyword",
                  "NumberKeyword", "StringKeyword", "VoidKeyword", "ThisType",
                  "TypeQuery", "IntersectionType"}}

StringLiteralTypes == {LiteralType(StringLiteral(s)) : s \in {"Error", "Loading"}}

LeafTypes ==
  KeywordTypes \cup StringLiteralTypes
  \cup {LiteralType(NumericLiteral("1")),
        TypeReference(Identifier("User")), TypeReference(QualifiedName("M.User"))}

(* The members of object-literal types: 'type' members with a string       *)
(* literal, another or no type; fields with an identifier or a quoted      *)
(* name, with or without type; a method.                                   *)
MemberNodes ==
  {PropertySignature(Identifier("type"), t) :
     t \in StringLiteralTypes \cup {Kw("StringKeyword"), Undefined}}
  \cup {PropertySignature(Identifier("message"), t) :
          t \in {Kw("StringKeyword"), TupleType(<<>>), Undefined}}
  \cup {PropertySignature(StringLiteral("message"), Kw("NumberKeyword")),
        MethodSignature(Identifier("run"))}

TypeLiteralNodes == {TypeLiteral(ms) : ms \in SeqsUpTo(MemberNodes, MaxMembers)}

(* The members of union types. *)
UnionMemberNodes ==
  {TypeLiteral(<<PropertySignature(Identifier("type"), LiteralType(StringLiteral("Error"))),
                 PropertySignature(Identifier("message"), Kw("StringKeyword"))>>),
   TypeLiteral(<<PropertySignature(Identifier("type"), LiteralType(StringLiteral("Loading")))>>),
   TypeLiteral(<<PropertySignature(Identifier("type"), LiteralType(StringLiteral("Nothing")))>>),
   TypeLiteral(<<PropertySignature(Identifier("message"), Kw("StringKeyword")),
                 PropertySignature(Identifier("type"), LiteralType(StringLiteral("Error")))>>),
   TypeLiteral(<<PropertySignature(Identifier("message"), Kw("StringKeyword"))>>),
   LiteralType(StringLiteral("Error")),
   LiteralType(StringLiteral("Loading")),
   LiteralType(NumericLiteral("1")),
   Kw("NumberKeyword")}

UnionNodes == {UnionType(ts) : ts \in NonEmptySeqsUpTo(UnionMemberNodes, MaxUnion)}

(* The elements of tuple types, tuples among them. *)
TupleElementNodes ==
  {Kw("NumberKeyword"), Kw("AnyKeyword"), TupleType(<<>>), TupleType(<<Kw("StringKeyword")>>),
   TupleType(<<Kw("NumberKeyword"), Kw("StringKeyword")>>),
   TupleType(<<TupleType(<<>>)>>)}

TupleNodes == {TupleType(es) : es \in SeqsUpTo(TupleElementNodes, MaxTuple)}

NestedNodes ==
  {Kw("NumberKeyword"), TupleType(<<>>), TupleType(<<Kw("StringKeyword")>>),
   TypeLiteral(<<PropertySignature(Identifier("message"), Kw("StringKeyword"))>>),
   LiteralType(StringLiteral("Error")),
   UnionType(<<Kw("NumberKeyword"), Kw("StringKeyword")>>)}

ArrayNodes == {ArrayType(t) : t \in NestedNodes}

FunctionNodes ==
  {FunctionType(ps, t, tps) :
     ps \in {<<>>} \cup {<<Parameter(Identifier("x"), p)>> : p \in NestedNodes \cup {Undefined}},
     t \in {Kw("BooleanKeyword"), TupleType(<<>>)},
     tps \in {<<>>, <<TypeParameter(Identifier("A"))>>}}

TypeNodes ==
  LeafTypes \cup TypeLiteralNodes \cup UnionNodes \cup TupleNodes \cup ArrayNodes
  \cup FunctionNodes

----------------------------------------------------------------------------
(* The syntax-tree nodes the parser builds for expressions and statements. *)

PropertyAccessExpression(expression, name) ==
  [kind |-> "PropertyAccessExpression", expression |-> expression, name |-> name]

BinaryNode(left, operatorToken, right) ==
  [kind |-> "BinaryExpression", left |-> left, operatorToken |-> operatorToken,
   right |-> right]

ConditionalNode(condition, whenTrue, whenFalse) ==
  [kind |-> "ConditionalExpression", condition |-> condition, whenTrue |-> whenTrue,
   whenFalse |-> whenFalse]

CallNode(expression, arguments) ==
  [kind |-> "CallExpression", expression |-> expression, arguments |-> arguments]

ArrayLiteralExpression(elements) == [kind |-> "ArrayLiteralExpression", elements |-> elements]

PrefixUnaryExpression(operator, operand) ==
  [kind |-> "PrefixUnaryExpression", operator |-> operator, operand |-> operand]

AsExpression(expression, type) ==
  [kind |-> "AsExpression", expression |-> expression, type |-> type]

ArrowFunction(parameters, body, typeParameters, type) ==
  [kind |-> "ArrowFunction", parameters |-> parameters, body |-> body,
   typeParameters |-> typeParameters, type |-> type]

PropertyAssignment(name, initializer) ==
  [kind |-> "PropertyAssignment", name |-> name, initializer |-> initializer]

ShorthandPropertyAssignment(name) == [kind |-> "ShorthandPropertyAssignment", name |-> name]

SpreadAssignment(expression) == [kind |-> "SpreadAssignment", expression |-> expression]

ObjectLiteralExpression(properties) ==
  [kind |-> "ObjectLiteralExpression", properties |-> properties]

Block(statements) == [kind |-> "Block", statements |-> statements]

ReturnStatement(expression) == [kind |-> "ReturnStatement", expression |-> expression]

CaseClause(expression, statements) ==
  [kind |-> "CaseClause", expression |-> expression, statements |-> statements]

DefaultClause(statements) == [kind |-> "DefaultClause", statements |-> statements]

(* statement.caseBlock.clauses is the field clauses. *)
SwitchStatement(expression, clauses) ==
  [kind |-> "SwitchStatement", expression |-> expression, clauses |-> clauses]

VariableDeclaration(name, initializer, type) ==
  [kind |-> "VariableDeclaration", name |-> name, initializer |-> initializer, type |-> type]

(* statement.declarationList.declarations is the field declarations. *)
VariableStatement(declarations) ==
  [kind |-> "VariableStatement", declarations |-> declarations]

BindingElement(dotDotDotToken, propertyName, name) ==
  [kind |-> "BindingElement", dotDotDotToken |-> dotDotDotToken,
   propertyName |-> propertyName, name |-> name]

ObjectBindingPattern(elements) == [kind |-> "ObjectBindingPattern", elements |-> elements]

FunctionDeclaration(name, parameters, body, typeParameters, type) ==
  [kind |-> "FunctionDeclaration", name |-> name, parameters |-> parameters, body |-> body,
   typeParameters |-> typeParameters, type |-> type]

TypeAliasDeclaration(name, type) ==
  [kind |-> "TypeAliasDeclaration", name |-> name, type |-> type]

IfStatement(expression, thenStatement, elseStatement) ==
  [kind |-> "IfStatement", expression |-> expression, thenStatement |-> thenStatement,
   elseStatement |-> elseStatement]

StatusType == PropertyAccessExpression(Identifier("status"), Identifier("type"))

ExpressionNodes ==
  {Identifier("status"), Identifier("x"), NumericLiteral("0"), NumericLiteral("12"),
   StringLiteral("hi"), Kw("TrueKeyword"), Kw("FalseKeyword"), Kw("NullKeyword"),
   Kw("ThisKeyword"),
   StatusType,
   PropertyAccessExpression(Identifier("status"), Identifier("message")),
   PropertyAccessExpression(Identifier("status"), [kind |-> "PrivateIdentifier", text |-> "#p"]),
   BinaryNode(Identifier("x"), ">=", NumericLiteral("0")),
   BinaryNode(BinaryNode(Identifier("x"), "+", NumericLiteral("1")), "*", NumericLiteral("2")),
   ConditionalNode(Identifier("x"), NumericLiteral("0"), Kw("ThisKeyword")),
   CallNode(Identifier("f"), <<Identifier("x"), Kw("ThisKeyword")>>),
   ArrayLiteralExpression(<<NumericLiteral("0"), StringLiteral("hi")>>),
   PrefixUnaryExpression("ExclamationToken", Kw("TrueKeyword")),
   AsExpression(Identifier("x"), TypeReference(Identifier("Color"))),
   ObjectLiteralExpression(<<>>),
   ObjectLiteralExpression(<<PropertyAssignment(Identifier("a"), StringLiteral("hi"))>>),
   ArrowFunction(<<Parameter(Identifier("x"), Kw("NumberKeyword"))>>, Identifier("x"),
                 <<>>, Undefined),
   ArrowFunction(<<Parameter(Identifier("x"), Undefined)>>,
                 Block(<<ReturnStatement(Kw("ThisKeyword"))>>), <<>>, Kw("BooleanKeyword"))}

(* The properties of object literals: fields, a shorthand, properties      *)
(* named type, spreads and a method.                                       *)
PropertyNodes ==
  {PropertyAssignment(Identifier("a"), StringLiteral("hi")),
   PropertyAssignment(Identifier("b"), NumericLiteral("12")),
   PropertyAssignment(Identifier("c"), Kw("FalseKeyword")),
   ShorthandPropertyAssignment(Identifier("x")),
   PropertyAssignment(Identifier("type"), StringLiteral("C")),
   PropertyAssignment(Identifier("type"), Identifier("x")),
   SpreadAssignment(Identifier("base")),
   SpreadAssignment(Kw("ThisKeyword")),
   [kind |-> "MethodDeclaration", name |-> Identifier("run")]}

ObjectLiteralNodes ==
  {ObjectLiteralExpression(ps) : ps \in SeqsUpTo(PropertyNodes, MaxProperties)}

(* Casts e as T: of atoms, of compound expressions, of a cast, of object   *)
(* literals.                                                               *)
CastTypes == {TypeReference(Identifier("Color")), TypeReference(Identifier("Point")),
              Kw("AnyKeyword")}

CastNodes ==
  {AsExpression(e, t) :
     e \in {Identifier("x"), Kw("ThisKeyword"), StatusType,
            BinaryNode(Identifier("x"), ">=", Kw("ThisKeyword")),
            AsExpression(Identifier("x"), TypeReference(Identifier("Color"))),
            AsExpression(ObjectLiteralExpression(
                           <<PropertyAssignment(Identifier("a"), StringLiteral("hi"))>>),
                         TypeReference(Identifier("Color"))),
            ObjectLiteralExpression(<<>>),
            ObjectLiteralExpression(<<PropertyAssignment(Identifier("a"), StringLiteral("hi"))>>),
            ObjectLiteralExpression(<<PropertyAssignment(Identifier("type"), StringLiteral("C")),
                                      PropertyAssignment(Identifier("b"), NumericLiteral("12"))>>)},
     t \in CastTypes}

(* The statements of case clauses and of statement lists. *)
DestructuringOfStatus ==
  VariableStatement(<<VariableDeclaration(
      ObjectBindingPattern(<<BindingElement(FALSE, Undefined, Identifier("message"))>>),
      Identifier("status"), Undefined)>>)

SimpleStatements ==
  {ReturnStatement(NumericLiteral("0")), ReturnStatement(Undefined),
   ReturnStatement(Kw("ThisKeyword")),
   VariableStatement(<<VariableDeclaration(Identifier("v"), NumericLiteral("12"), Undefined)>>),
   VariableStatement(<<VariableDeclaration(Identifier("v"), Undefined, Undefined)>>),
   VariableStatement(<<VariableDeclaration(Identifier("v"), NumericLiteral("0"), Undefined),
                       VariableDeclaration(Identifier("w"), NumericLiteral("1"), Undefined)>>),
   VariableStatement(<<>>),
   DestructuringOfStatus,
   Kw("ExpressionStatement"),
   Block(<<Kw("ExpressionStatement"), ReturnStatement(NumericLiteral("1"))>>)}

(* The clauses of switch statements: with and without body, with a label   *)
(* that is no string literal, with a destructuring head, default clauses.  *)
ClauseNodes ==
  {CaseClause(StringLiteral("aa"), <<>>),
   CaseClause(StringLiteral("bb"), <<>>),
   CaseClause(StringLiteral("aa"), <<ReturnStatement(NumericLiteral("0"))>>),
   CaseClause(StringLiteral("bb"), <<ReturnStatement(NumericLiteral("1"))>>),
   CaseClause(NumericLiteral("1"), <<Kw("ExpressionStatement")>>),
   CaseClause(StringLiteral("Error"),
              <<DestructuringOfStatus,
                ReturnStatement(Identifier("message"))>>),
   DefaultClause(<<>>),
   DefaultClause(<<ReturnStatement(NumericLiteral("2"))>>)}

(* Destructurings of the scrutinee status at the head of a case clause. *)
DestructuringWithRename ==
  VariableStatement(<<VariableDeclaration(
      ObjectBindingPattern(<<BindingElement(FALSE, Identifier("a"), Identifier("b"))>>),
      Identifier("status"), Undefined)>>)

DestructuringOfTwoFields ==
  VariableStatement(<<VariableDeclaration(
      ObjectBindingPattern(<<BindingElement(FALSE, Undefined, Identifier("message")),
                             BindingElement(FALSE, Identifier("a"), Identifier("b"))>>),
      Identifier("status"), Undefined)>>)

DestructuringOfOther ==
  VariableStatement(<<VariableDeclaration(
      ObjectBindingPattern(<<BindingElement(FALSE, Undefined, Identifier("message"))>>),
      Identifier("other"), Undefined)>>)

(* The case clauses of switches on status.type. *)
SumClauseNodes ==
  {CaseClause(StringLiteral("Error"),
              <<DestructuringOfStatus, ReturnStatement(Identifier("message"))>>),
   CaseClause(StringLiteral("Renamed"),
              <<DestructuringWithRename, ReturnStatement(Identifier("b"))>>),
   CaseClause(StringLiteral("Two"),
              <<DestructuringOfTwoFields, Kw("ExpressionStatement"),
                ReturnStatement(Identifier("b"))>>),
   CaseClause(StringLiteral("Braces"),
              <<Block(<<DestructuringOfStatus, ReturnStatement(Identifier("message"))>>),
                ReturnStatement(NumericLiteral("1"))>>),
   CaseClause(StringLiteral("Other"),
              <<DestructuringOfOther, ReturnStatement(Identifier("message"))>>),
   CaseClause(StringLiteral("Late"),
              <<ReturnStatement(NumericLiteral("0")), DestructuringOfStatus>>),
   CaseClause(StringLiteral("Alias"),
              <<VariableStatement(<<VariableDeclaration(Identifier("v"), Identifier("status"),
                                                        Undefined)>>),
                ReturnStatement(Identifier("v"))>>),
   CaseClause(StringLiteral("Block"),
              <<Block(<<Kw("ExpressionStatement")>>), ReturnStatement(NumericLiteral("2"))>>),
   CaseClause(StringLiteral("Loading"), <<>>),
   DefaultClause(<<ReturnStatement(NumericLiteral("2"))>>)}

SumSwitchNodes ==
  {SwitchStatement(StatusType, cs) : cs \in SeqsUpTo(SumClauseNodes, MaxClauses)}

SwitchNodes ==
  {SwitchStatement(e, cs) :
     e \in {Identifier("x"), StatusType,
            PropertyAccessExpression(Identifier("status"), Identifier("kind"))},
     cs \in SeqsUpTo(ClauseNodes, MaxClauses)}

(* if (user.isAdmin) { return credits >= 0; } return credits >= 1000; *)
IfThenReturn ==
  <<IfStatement(PropertyAccessExpression(Identifier("user"), Identifier("isAdmin")),
                Block(<<ReturnStatement(BinaryNode(Identifier("credits"), ">=",
                                                   NumericLiteral("0")))>>),
                Undefined),
    ReturnStatement(BinaryNode(Identifier("credits"), ">=", NumericLiteral("1000")))>>

StatementLists ==
  SeqsUpTo(SimpleStatements, MaxStatements)
  \cup {<<sw>> : sw \in SwitchNodes}
  \cup {<<sw>> : sw \in SumSwitchNodes}
  \cup {IfThenReturn}
  \cup {<<sw, ReturnStatement(NumericLiteral("12"))>> : sw \in SwitchNodes}
  \cup {<<SwitchStatement(PropertyAccessExpression(CallNode(Identifier("f"), <<>>),
                                                  Identifier("type")), <<>>),
          Kw("ExpressionStatement")>>}

(* The function of the README:                                             *)
(*   function checkIfEnoughCredits(user: User, credits: number): boolean { *)
(*     if (user.isAdmin) { return credits >= 0; }                          *)
(*     return credits >= 1000;                                             *)
(*   }                                                                     *)
checkIfEnoughCredits ==
  FunctionDeclaration(Identifier("checkIfEnoughCredits"),
                      <<Parameter(Identifier("user"), TypeReference(Identifier("User"))),
                        Parameter(Identifier("credits"), Kw("NumberKeyword"))>>,
                      Block(IfThenReturn), <<>>, Kw("BooleanKeyword"))

TopLevelNodes ==
  {VariableStatement(<<VariableDeclaration(Identifier("v"), e, t)>>) :
     e \in {NumericLiteral("0"), Undefined,
            ObjectLiteralExpression(<<PropertyAssignment(Identifier("a"), StringLiteral("hi"))>>)},
     t \in {Undefined, TypeReference(Identifier("Status"))}}
  \cup {FunctionDeclaration(n, <<Parameter(Identifier("x"), Kw("NumberKeyword"))>>, b,
                            <<>>, Kw("BooleanKeyword")) :
          n \in {Identifier("f"), Undefined},
          b \in {Undefined, Block(<<ReturnStatement(Identifier("x"))>>)}}
  \cup {TypeAliasDeclaration(Identifier("T"), t) :
          t \in {Kw("NumberKeyword"),
                 TypeLiteral(<<PropertySignature(Identifier("message"), Kw("StringKeyword"))>>),
                 TypeLiteral(<<PropertySignature(Identifier("message"), Undefined)>>),
                 UnionType(<<LiteralType(StringLiteral("Error")),
                             LiteralType(StringLiteral("Loading"))>>)}}
  \cup {Kw("ImportDeclaration"), checkIfEnoughCredits,
        FunctionDeclaration(Identifier("g"), <<>>, Block(<<ReturnStatement(Identifier("x"))>>),
                            <<>>, Undefined)}

(* The target expressions that are printed: atoms, and every kind of       *)
(* expression around a target expression of the nesting below.             *)
TargetAtoms ==
  {ExprVariable("x"), Constant([number |-> 12]), Constant([string |-> "hi"]),
   EnumInstance("Red", "Color"), ArrayExpression(<<>>), SumInstance("Loading", <<>>, "Status")}

Around(e) ==
  {BinaryExpression(e, "+", Constant([number |-> 1])),
   BinaryExpression(ExprVariable("y"), "*", e),
   BinaryExpression(e, "-", e),
   UnaryExpression(e, "!"),
   ConditionalExpression(ExprVariable("y"), e, ExprVariable("c")),
   CallExpression(<<e>>, ExprVariable("f")),
   FunctionExpression(Fun(<<FunArgument("y", Null), FunArgument("z", TypVariable("Z", <<>>))>>,
                          e, Null, <<"A">>)),
   Let(ExprVariable("v"), [type |-> "Variable", name |-> "v"], e),
   RecordInstance(<<RecordField("a", e)>>, "R"),
   RecordProjection("a", e, "R"),
   RecordUpdate("a", e, "R", Constant([boolean |-> TRUE])),
   SumInstance("Error", <<RecordField("message", e)>>, "Status"),
   TypeCastExpression(e, TypVariable("Z", <<>>)),
   ArrayExpression(<<e, ExprVariable("y")>>),
   EnumDestruct(<<[body |-> e, names |-> <<"Red", "Green">>]>>, Null, ExprVariable("y"),
                "Color"),
   SumDestruct(<<[body |-> ExprVariable("message"),
                  fields |-> <<LeftValueRecordField("message", "message")>>,
                  name |-> "Error"]>>,
               e, ExprVariable("y"), "Status")}

RECURSIVE TargetExpressions(_)
TargetExpressions(nesting) ==
  IF nesting = 0 THEN TargetAtoms
  ELSE TargetExpressions(nesting - 1)
       \cup UNION {Around(e) : e \in TargetExpressions(nesting - 1)}

(* Matches: enum branches of no, one and two names, sum branches of no,    *)
(* one and two field bindings, a match inside a branch, every default.     *)
EnumBranchValues ==
  {[body |-> Constant([number |-> 0]), names |-> <<"aa">>],
   [body |-> Constant([number |-> 1]), names |-> <<"bb", "gg">>],
   [body |-> tt, names |-> <<>>],
   [body |-> EnumDestruct(<<[body |-> ExprVariable("x"), names |-> <<"Red">>]>>,
                          ExprVariable("y"), ExprVariable("c"), "Color"),
    names |-> <<"cc">>]}

SumBranchValues ==
  {[body |-> ExprVariable("message"),
    fields |-> <<LeftValueRecordField("message", "message")>>, name |-> "Error"],
   [body |-> ExprVariable("b"),
    fields |-> <<LeftValueRecordField("message", "message"), LeftValueRecordField("a", "b")>>,
    name |-> "Two"],
   [body |-> tt, fields |-> <<>>, name |-> "Loading"]}

DefaultBranchValues == {Null, tt, Constant([number |-> 2])}

MatchExpressions ==
  {EnumDestruct(branches, defaultBranch, ExprVariable("x"), "Color") :
     branches \in SeqsUpTo(EnumBranchValues, MaxClauses),
     defaultBranch \in DefaultBranchValues}
  \cup {SumDestruct(branches, defaultBranch, ExprVariable("status"), "Status") :
          branches \in SeqsUpTo(SumBranchValues, MaxClauses),
          defaultBranch \in DefaultBranchValues}

----------------------------------------------------------------------------
(* The state machine. *)

NoOperation ==
  [op |-> "none", arg |-> Undefined, ret |-> Undefined, thrown |-> FALSE, pre |-> <<>>]

Init ==
  /\ errors = <<>>
  /\ typeChecker = "null"
  /\ last = NoOperation

(* A call of a compile function on arg with outcome r: its diagnostics are *)
(* pushed on the sink, also when it throws.                                *)
CallClearingSink(op, arg, r) ==
  /\ errors' = r.errs
  /\ last' = [op |-> op, arg |-> arg, ret |-> r.val, thrown |-> r.thrown, pre |-> errors]
  /\ UNCHANGED typeChecker

Call(op, arg, r) ==
  /\ errors' = errors \o r.errs
  /\ last' = [op |-> op, arg |-> arg, ret |-> r.val, thrown |-> r.thrown, pre |-> errors]
  /\ UNCHANGED typeChecker

TypCompileOp(typ) == Call("Typ.compile", typ, TypCompile(typ))

CompileIfPlainTypOp(typ) == Call("Typ.compileIfPlainTyp", typ, compileIfPlainTyp(typ))

TypDefinitionCompileOp(typ) == Call("TypDefinition.compile", typ, TypDefinitionCompile(typ))

CompileStatementsOp(statements) ==
  Call("Expression.compileStatements", statements, compileStatements(statements))

ExpressionCompileOp(expression) ==
  Call("Expression.compile", expression, ExpressionCompile(expression, Undefined))

TopLevelCompileOp(node) == Call("TopLevelStatement.compile", node, TopLevelCompile(node))

(* global.ts: initTypeChecker(checker) *)
InitTypeChecker(checker) ==
  /\ typeChecker' = checker
  /\ UNCHANGED <<errors, last>>

Checkers == {"checkerA", "checkerB"}

(* A process that has not compiled anything yet. *)
Fresh == last.op = "none"

(* One compilation of one type by a fresh process. *)
NextTyp ==
  \E typ \in TypeNodes :
    /\ Fresh
    /\ \/ TypCompileOp(typ)
       \/ CompileIfPlainTypOp(typ)
       \/ TypDefinitionCompileOp(typ)

SpecTyp == Init /\ [][NextTyp]_vars

(* One compilation of one statement list, expression or top-level         *)
(* statement by a fresh process, with or without a type checker installed. *)
NextExpr ==
  \/ \E checker \in Checkers : Fresh /\ InitTypeChecker(checker)
  \/ \E statements \in StatementLists : Fresh /\ CompileStatementsOp(statements)
  \/ \E expression \in ExpressionNodes \cup ObjectLiteralNodes \cup CastNodes :
        Fresh /\ ExpressionCompileOp(expression)
  \/ \E node \in TopLevelNodes : Fresh /\ TopLevelCompileOp(node)

SpecExpr == Init /\ [][NextExpr]_vars

(* expression.ts: print(needParens, expression); it gives a document and   *)
(* leaves the sink alone.                                                  *)
ExpressionPrintOp(needParens, expression) ==
  Call("Expression.print", [needParens |-> needParens, expression |-> expression],
       Ret(ExpressionPrint(needParens, expression)))

(* One rendering of one target expression. *)
NextPrint ==
  \E needParens \in BOOLEAN,
     expression \in TargetExpressions(MaxNesting) \cup MatchExpressions :
    Fresh /\ ExpressionPrintOp(needParens, expression)

SpecPrint == Init /\ [][NextPrint]_vars

(* error.ts: a call raise(defaultValue, node, message). *)
RaiseOp(defaultValue, node, message) ==
  Call("raise", [defaultValue |-> defaultValue, node |-> node, message |-> message],
       raise(defaultValue, node, message))

(* The inputs of the operations of a process that runs several of them. *)
SampleTypes ==
  {Kw("NumberKeyword"), Kw("AnyKeyword"),
   TypeLiteral(<<PropertySignature(Identifier("message"), Kw("StringKeyword"))>>),
   TypeLiteral(<<PropertySignature(Identifier("message"), Undefined)>>),
   UnionType(<<LiteralType(StringLiteral("Error")), LiteralType(StringLiteral("Loading"))>>),
   UnionType(<<LiteralType(StringLiteral("Error")), Kw("NumberKeyword")>>)}

SampleStatementLists ==
  {<<ReturnStatement(NumericLiteral("0"))>>,
   <<Kw("ExpressionStatement"), ReturnStatement(Kw("ThisKeyword"))>>,
   <<VariableStatement(<<VariableDeclaration(Identifier("v"), Undefined, Undefined)>>),
     Kw("ExpressionStatement")>>,
   <<SwitchStatement(Identifier("x"),
                     <<CaseClause(StringLiteral("aa"), <<>>),
                       CaseClause(NumericLiteral("1"), <<ReturnStatement(Kw("ThisKeyword"))>>)>>)>>}

GetTypeCheckerOp == Call("Global.getTypeChecker", Undefined, getTypeChecker)

GetTypNameOp(node) == Call("Typ.getTypName", node, getTypName(node))

(* An operation may start while the sink is short. *)
Ready == Len(errors) <= MaxSinkBefore

(* A process that installs checkers, raises and compiles, in any order. *)
Next ==
  \/ \E checker \in Checkers : InitTypeChecker(checker)
  \/ \E defaultValue \in {tt, unit}, node \in {Kw("ThisKeyword"), Kw("AnyKeyword")},
        message \in {"Unhandled kind of expression", "Unhandled kind of type"} :
        Ready /\ RaiseOp(defaultValue, node, message)
  \/ \E typ \in SampleTypes : Ready /\ TypDefinitionCompileOp(typ)
  \/ \E statements \in SampleStatementLists : Ready /\ CompileStatementsOp(statements)
  \/ Ready /\ GetTypeCheckerOp
  \/ \E node \in {Identifier("status"), Identifier("x")} : Ready /\ GetTypNameOp(node)

Spec == Init /\ [][Next]_vars

----------------------------------------------------------------------------
(* Vocabulary of the properties. *)

(* The diagnostics the last operation pushed. *)
Appended == SubSeq(errors, Len(last.pre) + 1, Len(errors))

Diagnostic(message, node) == [message |-> message, node |-> node]

IsStringLiteralType(typ) == typ.kind = "LiteralType" /\ typ.literal.kind = "StringLiteral"

(* A property signature named 'type'. *)
IsTypeMember(member) ==
  member.kind = "PropertySignature" /\ member.name.kind = "Identifier"
  /\ member.name.text = "type"

(* A property signature with an identifier for name, other than 'type',    *)
(* and a primitive type.                                                   *)
IsTypedField(member) ==
  /\ member.kind = "PropertySignature"
  /\ member.name.kind = "Identifier"
  /\ member.name.text # "type"
  /\ member.type.kind \in {"BooleanKeyword", "NumberKeyword", "StringKeyword"}

(* An object-literal type with one member 'type' of a string-literal type, *)
(* its other members typed fields.                                         *)
IsTaggedObject(typ) ==
  /\ typ.kind = "TypeLiteral"
  /\ Cardinality({i \in 1..Len(typ.members) : IsTypeMember(typ.members[i])}) = 1
  /\ \A i \in 1..Len(typ.members) :
       IF IsTypeMember(typ.members[i]) THEN IsStringLiteralType(typ.members[i].type)
       ELSE IsTypedField(typ.members[i])

(* The type aliases of supported constructs only. *)
SupportedAlias(typ) ==
  \/ /\ typ.kind = "TypeLiteral"
     /\ Len(typ.members) >= 1
     /\ \A i \in 1..Len(typ.members) : IsTypedField(typ.members[i])
  \/ /\ typ.kind = "UnionType"
     /\ \A i \in 1..Len(typ.types) : IsStringLiteralType(typ.types[i])
  \/ /\ typ.kind = "UnionType"
     /\ \A i \in 1..Len(typ.types) : IsTaggedObject(typ.types[i])

Classified == last.op = "TypDefinition.compile" /\ ~last.thrown

----------------------------------------------------------------------------
(* C1: no compile operation ever throws: every operation returns a value,  *)
(* whatever its input and whether or not a type checker is installed.      *)
C1_NoCompileThrows == ~last.thrown

(* C2: raise(defaultValue, node, message) returns exactly defaultValue and *)
(* appends exactly the entry {message, node} at the end of the sink, the   *)
(* earlier entries staying as they were.                                   *)
C2_RaiseReturnsDefaultAndAppends ==
  last.op = "raise" =>
    /\ ~last.thrown
    /\ last.ret = last.arg.defaultValue
    /\ errors = Append(last.pre, Diagnostic(last.arg.message, last.arg.node))

(* A raise on a sink that already holds an entry. *)
C2_Witness == last.op = "raise" /\ Len(last.pre) >= 1 /\ Len(errors) = Len(last.pre) + 1

(* C3: compiling a type alias made of supported constructs only (an        *)
(* object-literal type with named, typed members, a union of string        *)
(* literals, a union of 'type'-tagged object types) appends no diagnostic. *)
C3_SupportedAliasLeavesSinkEmpty ==
  (last.op = "TypDefinition.compile" /\ SupportedAlias(last.arg)) => errors = last.pre

(* C4: TypDefinition.compile of a union whose only member is m returns     *)
(* what TypDefinition.compile returns on m; stated on the members that     *)
(* the classifier is to accept in a union: 'type'-tagged object types and  *)
(* string-literal types.                                                   *)
C4_SingleMemberUnionAsMember ==
  (/\ Classified
   /\ last.arg.kind = "UnionType"
   /\ Len(last.arg.types) = 1
   /\ (IsTaggedObject(last.arg.types[1]) \/ IsStringLiteralType(last.arg.types[1])))
  => last.ret = TypDefinitionCompile(last.arg.types[1]).val

(* The first member named 'type' of an object-literal type. *)
FirstTypeMember(typ) ==
  typ.members[MinOf({i \in 1..Len(typ.members) : IsTypeMember(typ.members[i])})]

(* C5: an object-literal type with a member 'type' of a string-literal     *)
(* type is classified as a Sum of one constructor, named by the literal;   *)
(* a Record is returned only when no member is named 'type'.               *)
C5_TaggedObjectIsOneConstructorSum ==
  (Classified /\ last.arg.kind = "TypeLiteral") =>
    /\ (\E i \in 1..Len(last.arg.members) : IsTypeMember(last.arg.members[i]))
         => last.ret.type # "Record"
    /\ IsTaggedObject(last.arg) =>
         /\ last.ret.type = "Sum"
         /\ Len(last.ret.constructors) = 1
         /\ last.ret.constructors[1].name = FirstTypeMember(last.arg).type.literal.text

(* C6: a string-literal type "s" is classified as Enum(names = <<"s">>),   *)
(* and compileIfPlainTyp marks it Rest.                                    *)
C6_StringLiteralTypeIsEnum ==
  IsStringLiteralType(last.arg) =>
    /\ Classified => last.ret = Enum(<<last.arg.literal.text>>)
    /\ (last.op = "Typ.compileIfPlainTyp" /\ ~last.thrown) => last.ret.type = "Rest"

(* A union with a member of another shape than its first member. *)
IsMixedUnion(typ) ==
  /\ typ.kind = "UnionType"
  /\ \/ /\ typ.types[1].kind = "TypeLiteral"
        /\ \E i \in 1..Len(typ.types) : typ.types[i].kind # "TypeLiteral"
     \/ /\ IsStringLiteralType(typ.types[1])
        /\ \E i \in 1..Len(typ.types) : ~IsStringLiteralType(typ.types[i])

(* C7, as claimed: a mixed union appends a diagnostic and is classified as *)
(* Synonym(unit).                                                          *)
C7_MixedUnionIsSynonymOfUnit ==
  (Classified /\ IsMixedUnion(last.arg)) =>
    /\ Len(errors) > Len(last.pre)
    /\ last.ret = Synonym(unit)

(* C7, amended: a mixed union appends a diagnostic for each member of      *)
(* another shape than the first and is classified by its first member: as  *)
(* a Sum with the constructor NonObject, without fields, in the place of   *)
(* each member that is no object-literal type, or as an Enum with the name *)
(* Unknown in the place of each member that is no string-literal type. A   *)
(* union is classified as Synonym(unit), with one diagnostic, exactly when *)
(* its first member is neither an object-literal nor a literal type.       *)
C7_MixedUnionKeepsPlaceholders ==
  (Classified /\ last.arg.kind = "UnionType") =>
    /\ IsMixedUnion(last.arg) => Len(errors) > Len(last.pre)
    /\ (IsMixedUnion(last.arg) /\ last.arg.types[1].kind = "TypeLiteral") =>
         /\ last.ret.type = "Sum"
         /\ Len(last.ret.constructors) = Len(last.arg.types)
         /\ \A i \in 1..Len(last.arg.types) :
              last.arg.types[i].kind # "TypeLiteral" =>
                /\ last.ret.constructors[i] = Constructor("NonObject", <<>>)
                /\ \E k \in 1..Len(Appended) :
                     Appended[k] = Diagnostic("Expected an Object type", last.arg.types[i])
    /\ (IsMixedUnion(last.arg) /\ IsStringLiteralType(last.arg.types[1])) =>
         /\ last.ret.type = "Enum"
         /\ Len(last.ret.names) = Len(last.arg.types)
         /\ \A i \in 1..Len(last.arg.types) :
              IF IsStringLiteralType(last.arg.types[i])
                THEN last.ret.names[i] = last.arg.types[i].literal.text
                ELSE /\ last.ret.names[i] = "Unknown"
                     /\ \E k \in 1..Len(Appended) :
                          Appended[k] = Diagnostic("Expected a string literal type",
                                                   last.arg.types[i])
    /\ last.ret = Synonym(unit) <=>
         last.arg.types[1].kind \notin {"TypeLiteral", "LiteralType"}
    /\ last.ret = Synonym(unit) =>
         Appended = <<Diagnostic("Only handle unions of strings or objects with a 'type' field",
                                 last.arg)>>

(* A union of an object-literal type and a type of another shape. *)
C7_Witness ==
  /\ Classified
  /\ IsMixedUnion(last.arg)
  /\ last.arg.types[1].kind = "TypeLiteral"
  /\ Len(last.arg.types) = 3
  /\ last.ret.type = "Sum"

(* The property signatures of an object-literal type that are not named    *)
(* 'type', in source order.                                                *)
OtherProperties(typ) ==
  SelectSeq(typ.members,
            LAMBDA member : member.kind = "PropertySignature" /\ ~IsTypeMember(member))

(* The constructor claimed for a tagged member of a union. *)
ClaimedConstructor(typ) ==
  Constructor(FirstTypeMember(typ).type.literal.text,
              [i \in 1..Len(OtherProperties(typ)) |->
                 Field(OtherProperties(typ)[i].name.text,
                       TypCompile(OtherProperties(typ)[i].type).val)])

(* C8: a union of object-literal types, each with a member 'type' of a     *)
(* string-literal type, is classified as a Sum with one constructor per    *)
(* member, in source order, named by the literal, whose fields are the     *)
(* other properties of the member, in source order, with their compiled    *)
(* types; the member 'type' is no field.                                   *)
C8_UnionOfTaggedObjectsIsSum ==
  (/\ Classified
   /\ last.arg.kind = "UnionType"
   /\ \A i \in 1..Len(last.arg.types) : IsTaggedObject(last.arg.types[i]))
  => /\ last.ret.type = "Sum"
     /\ Len(last.ret.constructors) = Len(last.arg.types)
     /\ \A i \in 1..Len(last.arg.types) :
          /\ last.ret.constructors[i] = ClaimedConstructor(last.arg.types[i])
          /\ \A k \in 1..Len(last.ret.constructors[i].fields) :
               last.ret.constructors[i].fields[k].name # "type"

ErrorLoadingNothing ==
  UnionType(<<
    TypeLiteral(<<PropertySignature(Identifier("type"), LiteralType(StringLiteral("Error"))),
                  PropertySignature(Identifier("message"), Kw("StringKeyword"))>>),
    TypeLiteral(<<PropertySignature(Identifier("type"), LiteralType(StringLiteral("Loading")))>>),
    TypeLiteral(<<PropertySignature(Identifier("type"), LiteralType(StringLiteral("Nothing")))>>)>>)

(* {type:"Error",message:string}|{type:"Loading"}|{type:"Nothing"} gives   *)
(* Error(message: string), Loading(), Nothing().                           *)
C8_Witness ==
  /\ Classified
  /\ last.arg = ErrorLoadingNothing
  /\ last.ret = Sum(<<Constructor("Error", <<Field("message", TypVariable("string", <<>>))>>),
                      Constructor("Loading", <<>>), Constructor("Nothing", <<>>)>>)

(* The numbers of params of the Tuple nodes of a target type. *)
RECURSIVE TupleArities(_)
TupleArities(typ) ==
  IF typ.type = "Tuple"
    THEN {Len(typ.params)} \cup UNION {TupleArities(typ.params[i]) : i \in 1..Len(typ.params)}
  ELSE IF typ.type = "Function"
    THEN TupleArities(typ.returnTyp)
         \cup UNION {TupleArities(typ.params[i]) : i \in 1..Len(typ.params)}
  ELSE IF typ.type = "Variable"
    THEN UNION {TupleArities(typ.params[i]) : i \in 1..Len(typ.params)}
  ELSE {}

(* The last operation returned a target type. *)
ReturnedTyp ==
  /\ ~last.thrown
  /\ \/ last.op = "Typ.compile"
     \/ last.op = "Typ.compileIfPlainTyp" /\ last.ret.type = "PlainTyp"

TheTyp == IF last.op = "Typ.compile" THEN last.ret ELSE last.ret.typ

LabelOf(clause) ==
  IF clause.expression.kind = "StringLiteral" THEN clause.expression.text
  ELSE "expected_string"

IsEmptyCase(clause) == clause.kind = "CaseClause" /\ clause.statements = <<>>

IsBodyCase(clause) == clause.kind = "CaseClause" /\ clause.statements # <<>>

(* The first clause of the run of case clauses without body that ends      *)
(* right before clause j.                                                  *)
RunStart(clauses, j) ==
  MinOf({i \in 1..j : \A k \in i..(j - 1) : IsEmptyCase(clauses[k])})

(* The last operation compiled a list that starts with a switch on an      *)
(* expression that is no property access.                                  *)
EnumSwitchCompiled ==
  /\ last.op = "Expression.compileStatements"
  /\ ~last.thrown
  /\ last.arg # <<>>
  /\ last.arg[1].kind = "SwitchStatement"
  /\ last.arg[1].expression.kind # "PropertyAccessExpression"

(* C10: in an enum switch, a run of N case clauses without body followed   *)
(* by a case clause with a body gives exactly one branch, whose names are  *)
(* the N+1 labels in source order and whose body is the compiled body of   *)
(* the last clause; no later branch carries these labels.                  *)
C10_FallthroughRunIsOneBranch ==
  EnumSwitchCompiled =>
    LET clauses == last.arg[1].clauses
        bodies == {j \in 1..Len(clauses) : IsBodyCase(clauses[j])}
    IN  /\ last.ret.type = "EnumDestruct"
        /\ Len(last.ret.branches) >= Cardinality(bodies)
        /\ \A j \in bodies :
             LET branch == last.ret.branches[Cardinality({i \in bodies : i <= j})]
             IN  /\ branch.names =
                      [k \in 1..(j - RunStart(clauses, j) + 1) |->
                         LabelOf(clauses[RunStart(clauses, j) + k - 1])]
                 /\ branch.body = compileStatements(clauses[j].statements).val

(* A run of two clauses without body, then a clause with a body. *)
C10_Witness ==
  /\ EnumSwitchCompiled
  /\ Len(last.arg[1].clauses) = 3
  /\ IsEmptyCase(last.arg[1].clauses[1])
  /\ IsEmptyCase(last.arg[1].clauses[2])
  /\ IsBodyCase(last.arg[1].clauses[3])
  /\ Len(last.ret.branches) = 1
  /\ Len(last.ret.branches[1].names) = 3

----------------------------------------------------------------------------
(* Switches on x.type. *)

(* The statements with the blocks at the head replaced by their contents. *)
RECURSIVE FlattenLeading(_)
FlattenLeading(statements) ==
  IF statements = <<>> THEN <<>>
  ELSE IF Head(statements).kind = "Block"
    THEN FlattenLeading(Head(statements).statements \o Tail(statements))
  ELSE statements

(* The first statement, after flattening, declares one binder: an object   *)
(* pattern initialised by the identifier x.                                *)
HasDestructuringHead(statements, x) ==
  /\ FlattenLeading(statements) # <<>>
  /\ FlattenLeading(statements)[1].kind = "VariableStatement"
  /\ Len(FlattenLeading(statements)[1].declarations) = 1
  /\ FlattenLeading(statements)[1].declarations[1].name.kind = "ObjectBindingPattern"
  /\ FlattenLeading(statements)[1].declarations[1].initializer.kind = "Identifier"
  /\ FlattenLeading(statements)[1].declarations[1].initializer.text = x

(* The (source field name, bound variable) pairs of an object pattern. *)
PatternPairs(pattern) ==
  [i \in 1..Len(pattern.elements) |->
     [name |-> IF pattern.elements[i].propertyName.kind # "undefined"
                 THEN pattern.elements[i].propertyName.text
                 ELSE pattern.elements[i].name.text,
      variable |-> pattern.elements[i].name.text]]

(* The last operation compiled a list that starts with a switch on the     *)
(* field type of an identifier.                                            *)
SumSwitchCompiled ==
  /\ last.op = "Expression.compileStatements"
  /\ ~last.thrown
  /\ last.arg # <<>>
  /\ last.arg[1].kind = "SwitchStatement"
  /\ last.arg[1].expression.kind = "PropertyAccessExpression"
  /\ last.arg[1].expression.name.kind = "Identifier"
  /\ last.arg[1].expression.name.text = "type"
  /\ last.arg[1].expression.expression.kind = "Identifier"

Scrutinee == last.arg[1].expression.expression.text

CaseClausesOfSwitch == SelectSeq(last.arg[1].clauses, LAMBDA clause : clause.kind = "CaseClause")

(* C11: in a switch on x.type, a case clause whose first statement, after  *)
(* flattening the blocks at the head, declares one binder with an object   *)
(* pattern initialised by the identifier x gives a SumDestruct branch      *)
(* whose fields are the (source field name, bound variable) pairs of the   *)
(* pattern, in order, and whose body is the compilation of the statements  *)
(* after that first one.                                                   *)
C11_DestructuringHeadGivesFields ==
  SumSwitchCompiled =>
    /\ last.ret.type = "SumDestruct"
    /\ Len(last.ret.branches) = Len(CaseClausesOfSwitch)
    /\ \A i \in 1..Len(CaseClausesOfSwitch) :
         HasDestructuringHead(CaseClausesOfSwitch[i].statements, Scrutinee) =>
           /\ last.ret.branches[i].fields =
                PatternPairs(FlattenLeading(CaseClausesOfSwitch[i].statements)[1]
                               .declarations[1].name)
           /\ last.ret.branches[i].body =
                compileStatements(Tail(FlattenLeading(CaseClausesOfSwitch[i].statements))).val

(* const {message} = status, a renamed binding {a: b} and a destructuring  *)
(* inside a block, in one switch on status.type.                           *)
C11_Witness ==
  /\ SumSwitchCompiled
  /\ Len(last.arg[1].clauses) = 3
  /\ Len(last.ret.branches) = 3
  /\ last.arg[1].clauses[3].statements # <<>>
  /\ last.ret.branches[1].fields = <<[name |-> "message", variable |-> "message"]>>
  /\ last.ret.branches[2].fields = <<[name |-> "a", variable |-> "b"]>>
  /\ last.arg[1].clauses[3].statements[1].kind = "Block"
  /\ last.ret.branches[3].fields = <<[name |-> "message", variable |-> "message"]>>
  /\ last.ret.branches[3].body = ExprVariable("message")

(* C12: in a switch on x.type, a case clause whose first statement, after  *)
(* flattening the blocks at the head, is no such destructuring of x gives  *)
(* a branch without fields whose body is the compilation of all the        *)
(* statements of the clause: the trailing statements returned by           *)
(* getFieldsDestructuringFromHeadStatement are the statements of the       *)
(* clause, in order.                                                       *)
C12_NoDestructuringKeepsAllStatements ==
  SumSwitchCompiled =>
    \A i \in 1..Len(CaseClausesOfSwitch) :
      ~HasDestructuringHead(CaseClausesOfSwitch[i].statements, Scrutinee) =>
        /\ last.ret.branches[i].fields = <<>>
        /\ last.ret.branches[i].body = compileStatements(CaseClausesOfSwitch[i].statements).val
        /\ getFieldsDestructuringFromHeadStatement(
             CaseClausesOfSwitch[i].statements, Scrutinee).val.trailingStatements
           = FlattenLeading(CaseClausesOfSwitch[i].statements)

(* A clause that starts with a declaration that destructures nothing. *)
C12_Witness ==
  /\ SumSwitchCompiled
  /\ Len(CaseClausesOfSwitch) >= 1
  /\ CaseClausesOfSwitch[1].statements # <<>>
  /\ CaseClausesOfSwitch[1].statements[1].kind = "VariableStatement"
  /\ ~HasDestructuringHead(CaseClausesOfSwitch[1].statements, Scrutinee)
  /\ last.ret.branches[1].fields = <<>>
  /\ last.ret.branches[1].body.type = "Let"

----------------------------------------------------------------------------
(* Object literals. *)

IsTypeProperty(property) ==
  /\ property.kind = "PropertyAssignment"
  /\ property.name.kind = "Identifier"
  /\ property.name.text = "type"

IsSpread(property) == property.kind = "SpreadAssignment"

(* A property assignment or a shorthand with a name other than type. *)
IsFieldProperty(property) ==
  /\ property.kind \in {"PropertyAssignment", "ShorthandPropertyAssignment"}
  /\ property.name.kind = "Identifier"
  /\ property.name.text # "type"

(* The field claimed for a field property. *)
ClaimedField(property) ==
  IF property.kind = "PropertyAssignment"
    THEN [name |-> property.name.text,
          value |-> ExpressionCompile(property.initializer, Undefined).val]
    ELSE [name |-> property.name.text,
          value |-> [type |-> "Variable", name |-> property.name.text]]

ClaimedFields(properties) ==
  [i \in 1..Len(SelectSeq(properties, IsFieldProperty)) |->
     ClaimedField(SelectSeq(properties, IsFieldProperty)[i])]

(* The last operation compiled an object literal made of fields, type      *)
(* properties and spreads.                                                 *)
ObjectCompiled ==
  /\ last.op = "Expression.compile"
  /\ ~last.thrown
  /\ last.arg.kind = "ObjectLiteralExpression"
  /\ \A i \in 1..Len(last.arg.properties) :
       \/ IsFieldProperty(last.arg.properties[i])
       \/ IsTypeProperty(last.arg.properties[i])
       \/ IsSpread(last.arg.properties[i])

TypeProperties == SelectSeq(last.arg.properties, IsTypeProperty)

Spreads == SelectSeq(last.arg.properties, IsSpread)

(* C13: an object literal with at least one property, no property named   *)
(* type and no spread compiles to a RecordInstance whose fields are its    *)
(* properties in source order with compiled values; with exactly one       *)
(* property type: "C" and no spread it compiles to SumInstance(constr =    *)
(* "C") whose fields are the other properties in source order; a literal   *)
(* without properties compiles to tt.                                      *)
C13_ObjectLiteralIsRecordOrSumInstance ==
  (ObjectCompiled /\ Spreads = <<>>) =>
    /\ last.arg.properties = <<>> => last.ret = tt
    /\ (last.arg.properties # <<>> /\ TypeProperties = <<>>) =>
         /\ last.ret.type = "RecordInstance"
         /\ last.ret.fields = ClaimedFields(last.arg.properties)
    /\ (Len(TypeProperties) = 1 /\ TypeProperties[1].initializer.kind = "StringLiteral") =>
         /\ last.ret.type = "SumInstance"
         /\ last.ret.constr = TypeProperties[1].initializer.text
         /\ last.ret.fields = ClaimedFields(last.arg.properties)

(* {a: 'hi', b: 12, c: false} *)
C13_Witness ==
  /\ ObjectCompiled
  /\ last.arg = ObjectLiteralExpression(
                  <<PropertyAssignment(Identifier("a"), StringLiteral("hi")),
                    PropertyAssignment(Identifier("b"), NumericLiteral("12")),
                    PropertyAssignment(Identifier("c"), Kw("FalseKeyword"))>>)
  /\ last.ret.type = "RecordInstance"
  /\ Len(last.ret.fields) = 3
  /\ last.ret.fields[1] = [name |-> "a", value |-> Constant([string |-> "hi"])]
  /\ last.ret.fields[2] = [name |-> "b", value |-> Constant([number |-> 12])]
  /\ last.ret.fields[3] = [name |-> "c", value |-> Constant([boolean |-> FALSE])]

(* The updates of the fields 1..k on base, the field k outermost. *)
RECURSIVE ClaimedUpdates(_, _, _, _)
ClaimedUpdates(base, fields, k, typName) ==
  IF k = 0 THEN base
  ELSE [type |-> "RecordUpdate", field |-> fields[k].name,
        object |-> ClaimedUpdates(base, fields, k - 1, typName),
        record |-> typName, update |-> fields[k].value]

(* C14: an object literal {...base, f1: v1, ..., fn: vn} without property  *)
(* type compiles to the left fold of RecordUpdate over compile(base): the  *)
(* innermost update sets f1 on the base, the outermost sets fn, every node *)
(* carries the type name resolved for the literal, and with n = 0 the      *)
(* result is compile(base).                                                *)
C14_LeadingSpreadIsLeftFold ==
  (/\ ObjectCompiled
   /\ last.arg.properties # <<>>
   /\ IsSpread(last.arg.properties[1])
   /\ \A i \in 2..Len(last.arg.properties) : IsFieldProperty(last.arg.properties[i]))
  => last.ret = ClaimedUpdates(ExpressionCompile(last.arg.properties[1].expression,
                                                 Undefined).val,
                               ClaimedFields(last.arg.properties),
                               Len(last.arg.properties) - 1,
                               getTypName(last.arg).val)

(* {...base, a: 'hi', b: 12}: the update of b on the update of a on base. *)
C14_Witness ==
  /\ ObjectCompiled
  /\ Len(last.arg.properties) = 3
  /\ IsSpread(last.arg.properties[1])
  /\ last.ret.type = "RecordUpdate"
  /\ last.ret.field = "b"
  /\ last.ret.object.type = "RecordUpdate"
  /\ last.ret.object.field = "a"
  /\ last.ret.object.object = ExprVariable("base")

(* The literal has a property type together with a spread, several         *)
(* properties type or several spreads.                                     *)
IsRejectedLiteral ==
  \/ Len(TypeProperties) >= 1 /\ Len(Spreads) >= 1
  \/ Len(TypeProperties) >= 2
  \/ Len(Spreads) >= 2

(* The spreads that no property type and no field precedes. *)
LeadingSpreads ==
  {i \in 1..Len(last.arg.properties) :
     \A k \in 1..i : IsSpread(last.arg.properties[k])}

LateSpreads ==
  {i \in 1..Len(last.arg.properties) : IsSpread(last.arg.properties[i])} \ LeadingSpreads

(* C15, as claimed: a literal with a property type together with a spread, *)
(* with several properties type or with several spreads compiles to tt     *)
(* with a diagnostic, wherever these properties are in the literal.        *)
C15_RejectedLiteralIsTt ==
  (ObjectCompiled /\ IsRejectedLiteral) => (last.ret = tt /\ Appended # <<>>)

(* C15, amended: such a literal always appends a diagnostic.  It compiles  *)
(* to tt when it has several properties type, several leading spreads, or  *)
(* a property type together with a leading spread.  A spread that follows  *)
(* a property type or a field is reported ('Spread element must be the     *)
(* first element of the object') and left out: the literal then compiles   *)
(* to the SumInstance, RecordInstance or RecordUpdate of its other         *)
(* properties.                                                             *)
C15_RejectedLiteralRaises ==
  ObjectCompiled =>
    /\ IsRejectedLiteral => Appended # <<>>
    /\ \A i \in LateSpreads :
         \E k \in 1..Len(Appended) :
           Appended[k] = Diagnostic("Spread element must be the first element of the object",
                                    last.arg.properties[i])
    /\ IF \/ Len(TypeProperties) >= 2
          \/ Cardinality(LeadingSpreads) >= 2
          \/ Len(TypeProperties) >= 1 /\ Cardinality(LeadingSpreads) >= 1
         THEN /\ last.ret = tt
              /\ Appended # <<>>
              /\ Appended[Len(Appended)].node = last.arg
       ELSE IF Len(TypeProperties) = 1
         THEN /\ last.ret.type = "SumInstance"
              /\ last.ret.fields = ClaimedFields(last.arg.properties)
       ELSE IF Cardinality(LeadingSpreads) = 1
         THEN last.ret = ClaimedUpdates(ExpressionCompile(last.arg.properties[1].expression,
                                                          Undefined).val,
                                        ClaimedFields(last.arg.properties),
                                        Len(ClaimedFields(last.arg.properties)),
                                        getTypName(last.arg).val)
       ELSE last.arg.properties # <<>> =>
              /\ last.ret.type = "RecordInstance"
              /\ last.ret.fields = ClaimedFields(last.arg.properties)

(* {...base, ...this}: two leading spreads. *)
C15_Witness ==
  /\ ObjectCompiled
  /\ Len(last.arg.properties) = 2
  /\ LeadingSpreads = {1, 2}
  /\ last.ret = tt
  /\ Appended # <<>>
  /\ Appended[Len(Appended)] = Diagnostic("Multiple spreads", last.arg)

----------------------------------------------------------------------------
(* Parentheses in the output of Expression.print. *)

(* The number of parentheses open after the first k strings of a document. *)
RECURSIVE Depth(_, _)
Depth(doc, k) ==
  IF k = 0 THEN 0
  ELSE Depth(doc, k - 1)
       + (IF doc[k] \in {"(", ".("} THEN 1 ELSE IF doc[k] = ")" THEN -1 ELSE 0)

(* The document is between an opening parenthesis and the closing          *)
(* parenthesis that matches it.                                            *)
Enclosed(doc) ==
  /\ Len(doc) >= 2
  /\ doc[1] = "("
  /\ doc[Len(doc)] = ")"
  /\ \A k \in 1..(Len(doc) - 1) : Depth(doc, k) >= 1

Printed == last.op = "Expression.print"

Inside == IF last.arg.needParens THEN SubSeq(last.ret, 2, Len(last.ret) - 1) ELSE last.ret

(* C17: a binary expression printed without the flag is not enclosed in    *)
(* parentheses and a binary operand of it is; every binary or conditional  *)
(* expression printed with the flag is enclosed, and the output of a       *)
(* binary expression is made of its two operands printed with the flag.    *)
C17_BinaryOperandsInParentheses ==
  Printed =>
    /\ (/\ last.arg.needParens
        /\ last.arg.expression.type \in {"BinaryExpression", "ConditionalExpression"})
         => Enclosed(last.ret)
    /\ last.arg.expression.type = "BinaryExpression" =>
         /\ ~last.arg.needParens => ~Enclosed(last.ret)
         /\ Inside = ExpressionPrint(TRUE, last.arg.expression.left)
                     \o <<line, last.arg.expression.operator, line>>
                     \o ExpressionPrint(TRUE, last.arg.expression.right)
         /\ last.arg.expression.left.type = "BinaryExpression" =>
              Enclosed(SubSeq(Inside, 1, Len(ExpressionPrint(TRUE, last.arg.expression.left))))
         /\ last.arg.expression.right.type = "BinaryExpression" =>
              Enclosed(SubSeq(Inside,
                              Len(Inside) - Len(ExpressionPrint(TRUE, last.arg.expression.right))
                                + 1,
                              Len(Inside)))

(* (x + 1) + 1 printed without the flag. *)
C17_Witness ==
  /\ Printed
  /\ ~last.arg.needParens
  /\ last.arg.expression =
       BinaryExpression(BinaryExpression(ExprVariable("x"), "+", Constant([number |-> 1])),
                        "+", Constant([number |-> 1]))
  /\ last.ret = <<"(", "x", line, "+", line, "1", ")", line, "+", line, "1">>

----------------------------------------------------------------------------
(* Functions. *)

FunctionCompiled ==
  /\ last.op = "TopLevelStatement.compile"
  /\ last.arg.kind = "FunctionDeclaration"

(* The body is if (c) { return a; } return b; *)
IsIfThenReturn(statements) ==
  /\ Len(statements) = 2
  /\ statements[1].kind = "IfStatement"
  /\ statements[1].thenStatement.kind = "Block"
  /\ Len(statements[1].thenStatement.statements) = 1
  /\ statements[1].thenStatement.statements[1].kind = "ReturnStatement"
  /\ statements[1].elseStatement.kind = "undefined"
  /\ statements[2].kind = "ReturnStatement"

(* C18: a function whose body is if (c) { return a; } return b; compiles   *)
(* without diagnostic to a Definition whose body is the conditional        *)
(* expression of compile(c), compile(a) and compile(b).                    *)
C18_IfThenReturnIsConditional ==
  (/\ FunctionCompiled
   /\ typeChecker # "null"
   /\ last.arg.body.kind = "Block"
   /\ IsIfThenReturn(last.arg.body.statements))
  => /\ ~last.thrown
     /\ errors = last.pre
     /\ Len(last.ret) = 1
     /\ last.ret[1].type = "Definition"
     /\ last.ret[1].body =
          ConditionalExpression(
            ExpressionCompile(last.arg.body.statements[2].expression, Undefined).val,
            ExpressionCompile(last.arg.body.statements[1].thenStatement.statements[1].expression,
                              Undefined).val,
            ExpressionCompile(last.arg.body.statements[1].expression, Undefined).val)

(* C19: a function declaration or function expression with the return type *)
(* annotation T gives a Definition, or a Fun, whose returnTyp is           *)
(* Typ.compile(T); returnTyp is null only without annotation.              *)
C19_ReturnTypIsCompiledAnnotation ==
  /\ (FunctionCompiled /\ ~last.thrown) =>
       IF last.arg.type.kind # "undefined"
         THEN last.ret[1].returnTyp = TypCompile(last.arg.type).val
         ELSE last.ret[1].returnTyp = Null
  /\ (last.op = "Expression.compile" /\ ~last.thrown /\ last.arg.kind = "ArrowFunction") =>
       IF last.arg.type.kind # "undefined"
         THEN last.ret.value.returnTyp = TypCompile(last.arg.type).val
         ELSE last.ret.value.returnTyp = Null

----------------------------------------------------------------------------
(* The sink over several operations of one process. *)

(* C20: over any sequence of operations of one process the sink only grows *)
(* by appending: the sink after a step is the sink before it extended at   *)
(* the end by the diagnostics of the step; no entry is removed, reordered, *)
(* rewritten or cleared.                                                   *)
C20_SinkOnlyGrowsByAppending ==
  [][/\ Len(errors') >= Len(errors)
     /\ SubSeq(errors', 1, Len(errors)) = errors
     /\ last' # last => /\ last'.pre = errors
                        /\ \A i \in Len(errors) + 1 .. Len(errors') :
                             /\ DOMAIN errors'[i] = {"message", "node"}
                             /\ errors'[i].node # Undefined]_vars

(* A compile operation that reported twice into a sink that held an entry. *)
C20_Witness ==
  /\ last.op \in {"TypDefinition.compile", "Expression.compileStatements"}
  /\ Len(last.pre) >= 1
  /\ Len(errors) >= Len(last.pre) + 2
  /\ errors[Len(errors)] # errors[1]

----------------------------------------------------------------------------
(* The kind of match a switch gives. *)

(* The last operation compiled a list that starts with a switch, and       *)
(* returned.                                                               *)
SwitchCompiled ==
  /\ last.op = "Expression.compileStatements"
  /\ ~last.thrown
  /\ last.arg # <<>>
  /\ last.arg[1].kind = "SwitchStatement"

Switched == last.arg[1].expression

IsAccessOfType(expression) ==
  /\ expression.kind = "PropertyAccessExpression"
  /\ expression.name.kind = "Identifier"
  /\ expression.name.text = "type"

(* The rest of the list was compiled, then one diagnostic was pushed. *)
ReportedAndContinued(node, message) ==
  /\ last.ret = compileStatements(Tail(last.arg)).val
  /\ Appended = Append(compileStatements(Tail(last.arg)).errs, Diagnostic(message, node))

(* C21 as stated: a switch gives a SumDestruct when the switched           *)
(* expression is a property access on a field named type, and an           *)
(* EnumDestruct over the compiled switched expression in every other case, *)
(* a property access on a field of another name included.                  *)
C21_SwitchIsSumOrEnum ==
  SwitchCompiled =>
    IF IsAccessOfType(Switched)
      THEN last.ret.type = "SumDestruct"
      ELSE /\ last.ret.type = "EnumDestruct"
           /\ last.ret.discriminant = ExpressionCompile(Switched, Undefined).val

(* C21, amended: a switch that returns gives a SumDestruct over compile(x) *)
(* when the switched expression is x.type with x an identifier, and an     *)
(* EnumDestruct over the compiled switched expression when it is no        *)
(* property access. A property access on a field of another name, and an   *)
(* access e.type where e is no identifier, give no match: one diagnostic   *)
(* is recorded, for the statement or for e, and the result is the          *)
(* compilation of the statements after the switch.                         *)
C21_SwitchIsSumEnumOrReported ==
  SwitchCompiled =>
    IF Switched.kind # "PropertyAccessExpression"
      THEN /\ last.ret.type = "EnumDestruct"
           /\ last.ret.discriminant = ExpressionCompile(Switched, Undefined).val
    ELSE IF ~IsAccessOfType(Switched)
      THEN ReportedAndContinued(
             last.arg[1], "Expected an access on the 'type' field to destructure a sum type")
    ELSE IF Switched.expression.kind = "Identifier"
      THEN /\ last.ret.type = "SumDestruct"
           /\ last.ret.discriminant = ExpressionCompile(Switched.expression, Undefined).val
    ELSE ReportedAndContinued(
           Switched.expression, "Expected a switch on an identifier to destructure a sum type")

(* A switch on status.kind with clauses, followed by return 12. *)
C21_Witness ==
  /\ SwitchCompiled
  /\ Switched.kind = "PropertyAccessExpression"
  /\ Switched.name.text = "kind"
  /\ Len(last.arg[1].clauses) >= 2
  /\ Len(last.arg) = 2
  /\ last.ret = Constant([number |-> 12])
  /\ Len(Appended) = 1

----------------------------------------------------------------------------
(* The default branch of a match. *)

(* The last operation returned a match for the switch at the head. *)
MatchCompiled ==
  /\ SwitchCompiled
  /\ last.ret.type \in {"SumDestruct", "EnumDestruct"}
  /\ \/ Switched.kind # "PropertyAccessExpression"
     \/ IsAccessOfType(Switched) /\ Switched.expression.kind = "Identifier"

DefaultClausesOfSwitch ==
  SelectSeq(last.arg[1].clauses, LAMBDA clause : clause.kind = "DefaultClause")

(* C22 as stated: the defaultBranch of a SumDestruct or EnumDestruct is    *)
(* non-null exactly when the switch has a default clause with a non-empty  *)
(* statement list; a default clause without statements gives null.         *)
C22_DefaultBranchIffNonEmptyDefault ==
  MatchCompiled =>
    (last.ret.defaultBranch # Null
       <=> \E i \in 1..Len(DefaultClausesOfSwitch) :
             DefaultClausesOfSwitch[i].statements # <<>>)

(* C22, amended: the defaultBranch is non-null exactly when the switch has *)
(* a default clause; it is then the compilation of the statements of the   *)
(* first default clause, which is tt when that clause has no statements.   *)
C22_DefaultBranchIffDefaultClause ==
  MatchCompiled =>
    /\ last.ret.defaultBranch # Null <=> DefaultClausesOfSwitch # <<>>
    /\ DefaultClausesOfSwitch # <<>> =>
         last.ret.defaultBranch = compileStatements(DefaultClausesOfSwitch[1].statements).val
    /\ (DefaultClausesOfSwitch # <<>> /\ DefaultClausesOfSwitch[1].statements = <<>>) =>
         last.ret.defaultBranch = tt

(* A match on x.type whose default clause has no statements. *)
C22_Witness ==
  /\ MatchCompiled
  /\ last.ret.type = "SumDestruct"
  /\ Len(DefaultClausesOfSwitch) = 1
  /\ DefaultClausesOfSwitch[1].statements = <<>>
  /\ last.ret.defaultBranch = tt
  /\ Len(last.ret.branches) >= 1

----------------------------------------------------------------------------
(* Local declarations. *)

(* The last operation compiled a list that starts with a declaration       *)
(* statement, and returned.                                                *)
DeclarationCompiled ==
  /\ last.op = "Expression.compileStatements"
  /\ ~last.thrown
  /\ last.arg # <<>>
  /\ last.arg[1].kind = "VariableStatement"

Binders == last.arg[1].declarations

Holds(entries, entry) == \E i \in 1..Len(entries) : entries[i] = entry

(* C23: on [declaration, ...rest], one binder with an initializer gives    *)
(* Let(compileLVal(binder), compile(init), compileStatements(rest)); one   *)
(* binder without initializer gives the same Let with the value tt and one *)
(* diagnostic; no binder, or two or more, gives one diagnostic for the     *)
(* statement and compileStatements(rest). The rest is compiled in every    *)
(* case.                                                                   *)
C23_DeclarationIsLetOrReported ==
  DeclarationCompiled =>
    IF Len(Binders) = 1
      THEN /\ last.ret.type = "Let"
           /\ last.ret.lval = compileLVal(Binders[1].name).val
           /\ last.ret.body = compileStatements(Tail(last.arg)).val
           /\ IF Binders[1].initializer.kind # "undefined"
                THEN /\ last.ret.value = ExpressionCompile(Binders[1].initializer, Undefined).val
                     /\ Len(Appended) =
                          Len(compileStatements(Tail(last.arg)).errs)
                          + Len(compileLVal(Binders[1].name).errs)
                          + Len(ExpressionCompile(Binders[1].initializer, Undefined).errs)
                ELSE /\ last.ret.value = tt
                     /\ Len(Appended) =
                          Len(compileStatements(Tail(last.arg)).errs)
                          + Len(compileLVal(Binders[1].name).errs) + 1
                     /\ Holds(Appended,
                              Diagnostic("Expected a definition with a value", Binders[1]))
      ELSE /\ last.ret = compileStatements(Tail(last.arg)).val
           /\ Len(Appended) = Len(compileStatements(Tail(last.arg)).errs) + 1
           /\ Holds(Appended,
                    Diagnostic(IF Binders = <<>> THEN "Expected at least one definition"
                               ELSE "Expected exactly one definition", last.arg[1]))

(* A declaration of two binders, then a declaration without initializer. *)
C23_Witness ==
  /\ DeclarationCompiled
  /\ Len(last.arg) = 2
  /\ Len(Binders) = 2
  /\ last.arg[2].kind = "VariableStatement"
  /\ last.ret.type = "Let"
  /\ last.ret.value = tt
  /\ last.ret.body = tt
  /\ Len(Appended) = 2

----------------------------------------------------------------------------
(* The rendering of matches. *)

MatchPrinted == Printed /\ last.arg.expression.type \in {"EnumDestruct", "SumDestruct"}

TheMatch == last.arg.expression

(* | Type.name *)
Alternative(typName, name) == <<"|", line, typName \o "." \o name>>

(* The alternatives of the names, then => and the body. *)
EnumArm(branch, typName) ==
  join(<<line>>, [k \in 1..Len(branch.names) |-> Alternative(typName, branch.names[k])])
  \o <<line, "=>", line>> \o ExpressionPrint(FALSE, branch.body) \o <<hardline>>

(* One alternative, the record pattern of the field bindings or _, then => *)
(* and the body.                                                           *)
SumArm(branch, sum) ==
  Alternative(sum, branch.name)
  \o <<line>>
  \o (IF branch.fields = <<>> THEN <<"_">>
      ELSE printLeftValue([type |-> "Record", fields |-> branch.fields,
                           record |-> sum \o "." \o branch.name], FALSE))
  \o <<line, "=>", line>> \o ExpressionPrint(FALSE, branch.body) \o <<hardline>>

DefaultArm(defaultBranch) ==
  IF defaultBranch = Null THEN <<>>
  ELSE <<"|", line, "_", line, "=>", line>> \o ExpressionPrint(FALSE, defaultBranch)
       \o <<hardline>>

(* C24: a match is rendered as its head, one arm per branch in branch      *)
(* order, and a last arm | _ => exactly when defaultBranch is not null. An *)
(* enum branch of k names is k alternatives | Type.name without binding    *)
(* pattern before one => and body; a sum branch is one alternative         *)
(* | Sum.name, then the record pattern of its field bindings, or _ when it *)
(* has none.                                                               *)
C24_MatchRendering ==
  MatchPrinted =>
    last.ret =
      <<"match", line>> \o ExpressionPrint(FALSE, TheMatch.discriminant)
      \o <<line, "with", hardline>>
      \o Flatten([i \in 1..Len(TheMatch.branches) |->
                    IF TheMatch.type = "EnumDestruct"
                      THEN EnumArm(TheMatch.branches[i], TheMatch.typName)
                      ELSE SumArm(TheMatch.branches[i], TheMatch.sum)])
      \o DefaultArm(TheMatch.defaultBranch)
      \o <<"end">>

(* A match on a sum with a branch of two field bindings, a branch without  *)
(* field binding and a default branch.                                     *)
C24_Witness ==
  /\ MatchPrinted
  /\ TheMatch.type = "SumDestruct"
  /\ Len(TheMatch.branches) = 2
  /\ Len(TheMatch.branches[1].fields) = 2
  /\ TheMatch.branches[2].fields = <<>>
  /\ TheMatch.defaultBranch = tt
  /\ \E k \in 1..Len(last.ret) : last.ret[k] = "Status.Two.a"
  /\ SubSeq(last.ret, Len(last.ret) - 8, Len(last.ret))
     = <<"|", line, "_", line, "=>", line, "tt", hardline, "end">>

----------------------------------------------------------------------------
(* The labels of an enum switch. *)

TheClauses == last.arg[1].clauses

(* The label compiled for each clause; a default clause has none. *)
Labels ==
  [j \in 1..Len(TheClauses) |->
     IF TheClauses[j].kind = "CaseClause" THEN LabelOf(TheClauses[j]) ELSE ""]

(* The names of the branches, one after the other. *)
NamesInBranchOrder ==
  Flatten([i \in 1..Len(last.ret.branches) |-> last.ret.branches[i].names])

(* The clauses after clause j up to the first one that is no case clause   *)
(* without body: the clause that ends the run of j.                        *)
EndOfRun(clauses, j) ==
  IF \E k \in j..Len(clauses) : ~IsEmptyCase(clauses[k])
    THEN MinOf({k \in j..Len(clauses) : ~IsEmptyCase(clauses[k])})
    ELSE Len(clauses) + 1

(* Clause j is a case clause whose run does not end at a default clause. *)
KeepsLabel(clauses, j) ==
  /\ clauses[j].kind = "CaseClause"
  /\ \/ EndOfRun(clauses, j) = Len(clauses) + 1
     \/ clauses[EndOfRun(clauses, j)].kind = "CaseClause"

(* The case clauses without body at the end of the switch. *)
TrailingRun(clauses) ==
  {j \in 1..Len(clauses) : IsEmptyCase(clauses[j]) /\ EndOfRun(clauses, j) = Len(clauses) + 1}

(* C25 as stated: in an enum switch the names of the branches, in branch   *)
(* order, are the labels of the case clauses in source order, each label   *)
(* in one branch; the labels of clauses without body that no case clause   *)
(* with a body follows are in a branch with body tt.                       *)
C25_EveryLabelInOneBranch ==
  EnumSwitchCompiled =>
    /\ NamesInBranchOrder =
         SelectAt(Labels,
                  [j \in 1..Len(TheClauses) |-> TheClauses[j].kind = "CaseClause"])
    /\ \A j \in 1..Len(TheClauses) :
         (/\ IsEmptyCase(TheClauses[j])
          /\ ~\E k \in (j + 1)..Len(TheClauses) :
                IsBodyCase(TheClauses[k])
                /\ \A m \in j..(k - 1) : IsEmptyCase(TheClauses[m]))
         => \E i \in 1..Len(last.ret.branches) :
              /\ last.ret.branches[i].body = tt
              /\ \E n \in 1..Len(last.ret.branches[i].names) :
                   last.ret.branches[i].names[n] = LabelOf(TheClauses[j])

(* C25, amended: the names of the branches, in branch order, are the       *)
(* labels, in source order, of the case clauses except the case clauses    *)
(* without body whose run ends at a default clause: these labels are in no *)
(* branch. The labels of the case clauses without body at the end of the   *)
(* switch are the names of the last branch, whose body is tt.              *)
C25_LabelsKeptButBeforeDefault ==
  EnumSwitchCompiled =>
    /\ NamesInBranchOrder =
         SelectAt(Labels,
                  [j \in 1..Len(TheClauses) |-> KeepsLabel(TheClauses, j)])
    /\ TrailingRun(TheClauses) # {} =>
         /\ last.ret.branches # <<>>
         /\ last.ret.branches[Len(last.ret.branches)].body = tt
         /\ last.ret.branches[Len(last.ret.branches)].names =
              SelectAt(Labels,
                       [j \in 1..Len(TheClauses) |-> j \in TrailingRun(TheClauses)])

(* case "aa": default: ...; case "bb": with no body: aa is in no branch    *)
(* and bb is in a branch with body tt.                                     *)
C25_Witness ==
  /\ EnumSwitchCompiled
  /\ Len(TheClauses) = 3
  /\ IsEmptyCase(TheClauses[1])
  /\ TheClauses[2].kind = "DefaultClause"
  /\ IsEmptyCase(TheClauses[3])
  /\ LabelOf(TheClauses[1]) # LabelOf(TheClauses[3])
  /\ Len(last.ret.branches) = 1
  /\ last.ret.branches[1] = [body |-> tt, names |-> <<LabelOf(TheClauses[3])>>]

----------------------------------------------------------------------------
(* The statements after a switch. *)

(* The statements after the first one compile to something: a value other  *)
(* than tt, or a diagnostic.                                               *)
RestMatters ==
  /\ Len(last.arg) >= 2
  /\ \/ compileStatements(Tail(last.arg)).val # tt
     \/ compileStatements(Tail(last.arg)).errs # <<>>

(* The outcome is the outcome for the first statement alone. *)
RestLost ==
  /\ last.ret = compileStatements(<<last.arg[1]>>).val
  /\ Appended = compileStatements(<<last.arg[1]>>).errs

(* C26: no statement is lost silently by compileStatements: a statement    *)
(* that no return statement precedes contributes to the returned           *)
(* expression or has a diagnostic; so do the statements that follow a      *)
(* switch statement in the list.                                           *)
C26_NoStatementLostSilently ==
  (/\ last.op = "Expression.compileStatements"
   /\ ~last.thrown
   /\ last.arg # <<>>
   /\ last.arg[1].kind \in {"SwitchStatement", "VariableStatement", "ExpressionStatement",
                            "IfStatement"}
   /\ RestMatters)
  => ~RestLost

----------------------------------------------------------------------------
(* The order of the diagnostics of a statement list. *)

(* The statement is a return, or a switch that gives a match: the          *)
(* statements after it are not compiled.                                   *)
EndsTheList(statement) ==
  \/ statement.kind = "ReturnStatement"
  \/ /\ statement.kind = "SwitchStatement"
     /\ \/ statement.expression.kind # "PropertyAccessExpression"
        \/ /\ IsAccessOfType(statement.expression)
           /\ statement.expression.expression.kind = "Identifier"

(* The last operation compiled a list, and returned; after flattening the  *)
(* blocks at its head, the list starts with a statement that does not end  *)
(* it.                                                                     *)
ListContinued ==
  /\ last.op = "Expression.compileStatements"
  /\ ~last.thrown
  /\ FlattenLeading(last.arg) # <<>>
  /\ ~EndsTheList(FlattenLeading(last.arg)[1])

(* The diagnostics of the first statement, and of the statements after it. *)
HeadErrs == compileStatements(<<FlattenLeading(last.arg)[1]>>).errs

RestErrs == compileStatements(Tail(FlattenLeading(last.arg))).errs

----------------------------------------------------------------------------
(* The holder of the type checker. The holder is null in the initial state *)
(* and initTypeChecker is the one step that writes it: it is null exactly  *)
(* as long as no initTypeChecker step was taken.                           *)

(* The step is a call of op. *)
Called(op) == last' # last /\ last'.op = op

(* C28: getTypeChecker throws exactly when the holder was never installed  *)
(* and returns the checker installed last otherwise; an installed holder   *)
(* never returns to null, and only initTypeChecker changes it; getTypName, *)
(* and with it a switch on an enum, throws exactly when getTypeChecker     *)
(* does.                                                                   *)
C28_TypeCheckerHolderProtocol ==
  [][/\ typeChecker # "null" => typeChecker' # "null"
     /\ typeChecker' # typeChecker => (typeChecker' \in Checkers /\ last' = last)
     /\ Called("Global.getTypeChecker") =>
          /\ last'.thrown <=> typeChecker = "null"
          /\ ~last'.thrown => last'.ret = typeChecker
     /\ Called("Typ.getTypName") =>
          /\ last'.thrown <=> typeChecker = "null"
          /\ ~last'.thrown => last'.ret = typeToString(typeChecker, last'.arg)
     /\ (/\ Called("Expression.compileStatements")
         /\ last'.arg[1].kind = "SwitchStatement"
         /\ last'.arg[1].expression.kind # "PropertyAccessExpression") =>
          (last'.thrown <=> typeChecker = "null")]_vars

(* getTypeChecker returned checkerB, and checkerA was installed after it. *)
C28_Witness ==
  /\ last.op = "Global.getTypeChecker"
  /\ ~last.thrown
  /\ last.ret = "checkerB"
  /\ typeChecker = "checkerA"

----------------------------------------------------------------------------
(* The branches of a SumDestruct. *)

(* C29: a SumDestruct has one branch for each case clause of the switch,   *)
(* in source order, named by the label of its clause; there is no          *)
(* grouping: a case clause without body gives a branch without field       *)
(* bindings whose body is tt.                                              *)
C29_OneSumBranchPerCaseClause ==
  SumSwitchCompiled =>
    /\ last.ret.type = "SumDestruct"
    /\ [i \in 1..Len(last.ret.branches) |-> last.ret.branches[i].name]
       = [i \in 1..Len(CaseClausesOfSwitch) |-> LabelOf(CaseClausesOfSwitch[i])]
    /\ \A i \in 1..Len(CaseClausesOfSwitch) :
         IsEmptyCase(CaseClausesOfSwitch[i]) =>
           last.ret.branches[i] =
             [body |-> tt, fields |-> <<>>, name |-> LabelOf(CaseClausesOfSwitch[i])]

(* case "Loading": without body, then a default clause, then case "Error"  *)
(* with a destructuring and a body.                                        *)
C29_Witness ==
  /\ SumSwitchCompiled
  /\ Len(last.arg[1].clauses) = 3
  /\ IsEmptyCase(last.arg[1].clauses[1])
  /\ last.arg[1].clauses[2].kind = "DefaultClause"
  /\ IsBodyCase(last.arg[1].clauses[3])
  /\ Len(last.ret.branches) = 2
  /\ last.ret.branches[1] = [body |-> tt, fields |-> <<>>, name |-> "Loading"]
  /\ last.ret.branches[2].name = "Error"
  /\ last.ret.branches[2].fields # <<>>
  /\ last.ret.branches[2].body = ExprVariable("message")

----------------------------------------------------------------------------
(* Casts. *)

CastCompiled == last.op = "Expression.compile" /\ last.arg.kind = "AsExpression"

(* The expression holds a TypeCastExpression or an EnumInstance. *)
RECURSIVE HoldsCastOrEnumInstance(_)
HoldsCastOrEnumInstance(e) ==
  CASE e.type \in {"TypeCastExpression", "EnumInstance"} -> TRUE
    [] e.type = "ArrayExpression" ->
         \E i \in 1..Len(e.elements) : HoldsCastOrEnumInstance(e.elements[i])
    [] e.type = "BinaryExpression" ->
         HoldsCastOrEnumInstance(e.left) \/ HoldsCastOrEnumInstance(e.right)
    [] e.type = "CallExpression" ->
         \/ HoldsCastOrEnumInstance(e.callee)
         \/ \E i \in 1..Len(e.arguments) : HoldsCastOrEnumInstance(e.arguments[i])
    [] e.type = "ConditionalExpression" ->
         \/ HoldsCastOrEnumInstance(e.test)
         \/ HoldsCastOrEnumInstance(e.consequent)
         \/ HoldsCastOrEnumInstance(e.alternate)
    [] e.type \in {"EnumDestruct", "SumDestruct"} ->
         \/ HoldsCastOrEnumInstance(e.discriminant)
         \/ HoldsCastOrEnumInstance(e.defaultBranch)
         \/ \E i \in 1..Len(e.branches) : HoldsCastOrEnumInstance(e.branches[i].body)
    [] e.type = "FunctionExpression" -> HoldsCastOrEnumInstance(e.value.body)
    [] e.type = "Let" -> HoldsCastOrEnumInstance(e.value) \/ HoldsCastOrEnumInstance(e.body)
    [] e.type \in {"RecordInstance", "SumInstance"} ->
         \E i \in 1..Len(e.fields) : HoldsCastOrEnumInstance(e.fields[i].value)
    [] e.type = "RecordProjection" -> HoldsCastOrEnumInstance(e.object)
    [] e.type = "RecordUpdate" ->
         HoldsCastOrEnumInstance(e.object) \/ HoldsCastOrEnumInstance(e.update)
    [] e.type = "UnaryExpression" -> HoldsCastOrEnumInstance(e.argument)
    [] OTHER -> FALSE

(* C30: for e as T where e is no object literal, Expression.compile gives  *)
(* the outcome of compile(e): its value, its diagnostics and no other, and *)
(* the same for every T. When e is an object literal, T names the type of  *)
(* the record or sum instance. No result of Expression.compile or of       *)
(* compileStatements holds a TypeCastExpression or an EnumInstance.        *)
C30_CastErasure ==
  /\ (CastCompiled /\ last.arg.expression.kind # "ObjectLiteralExpression") =>
       /\ last.thrown = ExpressionCompile(last.arg.expression, Undefined).thrown
       /\ last.ret = ExpressionCompile(last.arg.expression, Undefined).val
       /\ Appended = ExpressionCompile(last.arg.expression, Undefined).errs
       /\ \A t \in CastTypes :
            ExpressionCompile(AsExpression(last.arg.expression, t), Undefined)
            = ExpressionCompile(last.arg.expression, Undefined)
  /\ (/\ CastCompiled
      /\ last.arg.expression.kind = "ObjectLiteralExpression"
      /\ ~last.thrown) =>
       /\ last.ret.type = "RecordInstance" =>
            last.ret.record = typeToString(typeChecker, last.arg.type)
       /\ last.ret.type = "SumInstance" =>
            last.ret.sum = typeToString(typeChecker, last.arg.type)
  /\ (last.op \in {"Expression.compile", "Expression.compileStatements"} /\ ~last.thrown) =>
       ~HoldsCastOrEnumInstance(last.ret)

(* (x >= this) as Point: the binary expression of x and tt, and the one    *)
(* diagnostic of this.                                                     *)
C30_Witness ==
  /\ CastCompiled
  /\ last.arg.type = TypeReference(Identifier("Point"))
  /\ last.arg.expression.kind = "BinaryExpression"
  /\ ~last.thrown
  /\ last.ret = BinaryExpression(ExprVariable("x"), ">=", tt)
  /\ Len(errors) = 1

====
